---- MODULE Spec2Model ----
(***************************************************************************)
(* Model of the normalization and reconciliation code of                   *)
(* crypto-hash-exception:                                                  *)
(*   scripts/exception_analysis.py  ExceptionAnalyzer, main                *)
(*   src/tronscan_api.py            TronScanAPI                            *)
(*   02_sync_ms_form.py             MSFormSyncer                           *)
(*                                                                         *)
(* Money amounts of the reconciliation sheets are modelled as integers in  *)
(* hundredths (0.01 is 1, 1 is 100, 100 is 10000).                         *)
(***************************************************************************)
EXTENDS Integers, Sequences, FiniteSets, TLC

VARIABLES
    \* ---- scripts/exception_analysis.py ----
    ms_form_data,    \* dict hash -> amount read from the MS_FORM sheet
    tronscan_data,   \* dict hash -> amount read from the TRONSCAN sheet
    tolerance,       \* ExceptionAnalyzer.tolerance
    exceptions,      \* list built by analyze_exceptions, sorted in place by the writer
    rows,            \* rows_to_write of write_exceptions_to_sheet
    type_counts,     \* type_counts of write_exceptions_to_sheet
    total_diff,      \* total_diff of write_exceptions_to_sheet
    match_rate,      \* match_rate of main, as <<numerator, denominator>> of a percentage
    pc,              \* position of main
    prev_rows,       \* the rows written by the previous run of main on the same sheets
    runs,            \* number of runs of main started so far
    \* ---- src/historical_price_fetcher.py, src/tronscan_api.py ----
    price_cache,     \* HistoricalPriceFetcher.price_cache: (symbol, date) -> price
    tx,              \* the raw transaction handed to _normalize_transaction
    results,         \* the list _normalize_transaction returned
    npc,             \* "idle" before, "done" after _normalize_transaction
    conv_amount,     \* digits of the integer amount whose scaled string is converted
    conv_args,       \* arguments of _convert_amount_to_readable
    conv_result,     \* the dict _convert_amount_to_readable returned
    cpc,             \* "idle" before, "done" after _convert_amount_to_readable
    service_log,     \* what the price service did with the requests of the last call
    price_call,      \* the last call of get_historical_price or clear_cache and its result
    price_calls,     \* number of such calls so far
    \* ---- 02_sync_ms_form.py ----
    amount_str,      \* argument of _extract_amount_with_category_logic
    category,        \* argument of _extract_amount_with_category_logic
    processed_amount,\* the float _extract_amount_with_category_logic returned
    lpc,             \* "idle" before, "done" after _extract_amount_with_category_logic
    raw_hash,        \* argument of _extract_hash_from_url
    clean_txn_hash,  \* the string _extract_hash_from_url returned
    hpc,             \* "idle" before, "done" after _extract_hash_from_url
    read_errors,     \* the errors read_ms_form_data and read_tronscan_data logged
    \* ---- TronScanAPI.get_account_transactions ----
    start,           \* offset of the next page
    limit,           \* page size asked for
    all_transactions,\* len(all_transactions): number of records accumulated
    page_requests,   \* number of page requests made
    page_log,        \* what the loop logged when it stopped
    ppc,             \* "loop" inside the while loop, "returned" after the return
    \* ---- optimized_usdt_fetcher.py ----
    wallet_address,  \* argument of get_usdt_transactions
    usdt_tx,         \* the transaction of the response the for loop is at
    usdt_record,     \* the record the pass appended to all_transactions, if any
    upc,             \* "idle" before, "done" after the pass of the for loop
    fingerprint,     \* the cursor of get_usdt_transactions: None or the last one received
    usdt_page,       \* the response of the last request of get_usdt_transactions
    usdt_requests,   \* number of its requests so far, counted up to MaxCounted
    fpc,             \* "loop" inside its while loop, "returned" after the return
    \* ---- TronScanAPI.get_transactions_for_multiple_addresses ----
    addresses,       \* argument: the list of addresses
    feeds,           \* what the feed answers to the requests for each address of the list
    address_index,   \* position of the for loop in the list
    multi_transactions, \* all_transactions: per address a run of so many records
    multi_errors,    \* the addresses for which an error was logged
    mpc,             \* "loop" inside the for loop, "returned" after the return
    \* ---- 01_sync_wallet.py and 02_sync_ms_form.py ----
    current_batch,   \* content of current_batch.txt, NoBatch when the file is missing
    processed,       \* the workbooks of processed/: batch id -> names of its sheets
    batch_id,        \* batch_id of the run of 01_sync_wallet under way
    sync_runs,       \* number of runs of either script started so far
    wpc,             \* position of main of 01_sync_wallet
    form_log,        \* the error the last run of 02_sync_ms_form stopped with, "" if none
    \* ---- ExceptionAnalyzer.read_ms_form_data, read_tronscan_data ----
    sheet_name,      \* the sheet read: "MS_FORM" or "TRONSCAN"
    all_values,      \* what get_all_values returned: the header and the rows as typed
    sheet_data,      \* the dict returned: hash -> amount
    sheet_row_numbers, \* its row_number entries: hash -> row number
    sheet_errors,    \* the errors the reader logged
    spc              \* "idle" before, "done" after the reader

reconVars == <<ms_form_data, tronscan_data, tolerance, exceptions, rows,
               type_counts, total_diff, match_rate, pc, prev_rows, runs>>

chainVars == <<price_cache, tx, results, npc, conv_amount, conv_args, conv_result, cpc,
               service_log, price_call, price_calls>>

ledgerVars == <<amount_str, category, processed_amount, lpc>>

hashVars == <<raw_hash, clean_txn_hash, hpc>>

\* the state of the parts a run of one script does not touch
pageVars == <<start, limit, all_transactions, page_requests, page_log, ppc>>

usdtVars == <<wallet_address, usdt_tx, usdt_record, upc>>

cursorVars == <<fingerprint, usdt_page, usdt_requests, fpc>>

multiVars == <<addresses, feeds, address_index, multi_transactions, multi_errors, mpc>>

batchVars == <<current_batch, processed, batch_id, sync_runs, wpc, form_log>>

sheetVars == <<sheet_name, all_values, sheet_data, sheet_row_numbers, sheet_errors, spc>>

moreVars == <<cursorVars, multiVars, batchVars, sheetVars>>

sideVars == <<hashVars, read_errors, pageVars, usdtVars, moreVars>>

vars == <<reconVars, chainVars, ledgerVars, sideVars>>

----------------------------------------------------------------------------
\* Bounds of the model

MaxHashes == 2
MaxRuns == 2

Hashes == 1..MaxHashes

\* amounts a sheet cell can hold (hundredths): -50.00, 0, 0.01, 0.50, 150.00
Amounts == {-5000, 0, 1, 50, 15000}

\* values of --tolerance (hundredths); 0.01 is the default
Tolerances == {1, 50}

DefaultTolerance == 1

Abs(x) == IF x < 0 THEN -x ELSE x

\* every hash-keyed dict over the hashes of the model
Dicts == UNION {[S -> Amounts] : S \in SUBSET Hashes}

\* every order in which a Python set of the given elements can be iterated
IterationOrders(S) ==
    {o \in [1..Cardinality(S) -> S] : \A i, j \in 1..Cardinality(S) : o[i] = o[j] => i = j}

----------------------------------------------------------------------------
\* ExceptionAnalyzer.analyze_exceptions

\* variant: only the hashes of the form sheet are visited
all_hashes_form_only(A, B) == DOMAIN A

all_hashes(A, B) == DOMAIN A \cup DOMAIN B

\* variant: strict comparison with the tolerance
Classify_strict(tx_hash, A, B, tol) ==
    LET in_ms_form == tx_hash \in DOMAIN A
        in_tronscan == tx_hash \in DOMAIN B
    IN  IF in_ms_form /\ in_tronscan
        THEN IF Abs(A[tx_hash] - B[tx_hash]) < tol
             THEN [hash |-> tx_hash, exception_type |-> "MATCHED",
                   ms_form_amount |-> A[tx_hash], tronscan_amount |-> B[tx_hash],
                   difference |-> 0]
             ELSE [hash |-> tx_hash, exception_type |-> "AMOUNT_DIFFERENT",
                   ms_form_amount |-> A[tx_hash], tronscan_amount |-> B[tx_hash],
                   difference |-> Abs(A[tx_hash] - B[tx_hash])]
        ELSE IF in_ms_form /\ ~in_tronscan
        THEN [hash |-> tx_hash, exception_type |-> "IN_FORM_NOT_TRONSCAN",
              ms_form_amount |-> A[tx_hash], tronscan_amount |-> 0,
              difference |-> A[tx_hash]]
        ELSE [hash |-> tx_hash, exception_type |-> "IN_TRONSCAN_NOT_FORM",
              ms_form_amount |-> 0, tronscan_amount |-> B[tx_hash],
              difference |-> B[tx_hash]]

\* the body of the for loop: the record appended for one hash
Classify(tx_hash, A, B, tol) ==
    LET in_ms_form == tx_hash \in DOMAIN A
        in_tronscan == tx_hash \in DOMAIN B
    IN  IF in_ms_form /\ in_tronscan
        THEN IF Abs(A[tx_hash] - B[tx_hash]) <= tol
             THEN [hash |-> tx_hash, exception_type |-> "MATCHED",
                   ms_form_amount |-> A[tx_hash], tronscan_amount |-> B[tx_hash],
                   difference |-> 0]
             ELSE [hash |-> tx_hash, exception_type |-> "AMOUNT_DIFFERENT",
                   ms_form_amount |-> A[tx_hash], tronscan_amount |-> B[tx_hash],
                   difference |-> Abs(A[tx_hash] - B[tx_hash])]
        ELSE IF in_ms_form /\ ~in_tronscan
        THEN [hash |-> tx_hash, exception_type |-> "IN_FORM_NOT_TRONSCAN",
              ms_form_amount |-> A[tx_hash], tronscan_amount |-> 0,
              difference |-> A[tx_hash]]
        ELSE [hash |-> tx_hash, exception_type |-> "IN_TRONSCAN_NOT_FORM",
              ms_form_amount |-> 0, tronscan_amount |-> B[tx_hash],
              difference |-> B[tx_hash]]

\* order is the iteration order of the set all_hashes
analyze_exceptions(A, B, tol, order) ==
    [i \in 1..Len(order) |-> Classify(order[i], A, B, tol)]

----------------------------------------------------------------------------
\* ExceptionAnalyzer.write_exceptions_to_sheet

type_order(t) ==
    CASE t = "AMOUNT_DIFFERENT" -> 1
      [] t = "IN_FORM_NOT_TRONSCAN" -> 2
      [] t = "IN_TRONSCAN_NOT_FORM" -> 3
      [] t = "MATCHED" -> 4
      [] OTHER -> 5

\* variant: ascending difference inside a group
KeyLess_ascending(x, y) ==
    \/ type_order(x.exception_type) < type_order(y.exception_type)
    \/ /\ type_order(x.exception_type) = type_order(y.exception_type)
       /\ x.difference < y.difference

\* the sort key (type_order, -difference), compared as Python compares tuples
KeyLess(x, y) ==
    \/ type_order(x.exception_type) < type_order(y.exception_type)
    \/ /\ type_order(x.exception_type) = type_order(y.exception_type)
       /\ -x.difference < -y.difference

\* list.sort is stable: an element goes after every element whose key is not greater
RECURSIVE InsertStable(_, _)
InsertStable(sorted, x) ==
    IF sorted = <<>> THEN <<x>>
    ELSE IF KeyLess(x, Head(sorted)) THEN <<x>> \o sorted
    ELSE <<Head(sorted)>> \o InsertStable(Tail(sorted), x)

RECURSIVE SortExceptions(_)
SortExceptions(list) ==
    IF list = <<>> THEN <<>>
    ELSE InsertStable(SortExceptions(SubSeq(list, 1, Len(list) - 1)), list[Len(list)])

\* variant: no LOW band for differing amounts
_get_severity_no_low(exc) ==
    IF exc.exception_type = "MATCHED" THEN "OK"
    ELSE IF exc.difference < 10000 THEN "MEDIUM"
         ELSE "HIGH"

_get_severity(exc) ==
    IF exc.exception_type = "MATCHED" THEN "OK"
    ELSE IF exc.exception_type = "AMOUNT_DIFFERENT"
    THEN IF exc.difference < 100 THEN "LOW"
         ELSE IF exc.difference < 10000 THEN "MEDIUM"
         ELSE "HIGH"
    ELSE IF exc.difference < 10000 THEN "MEDIUM"
         ELSE "HIGH"

\* one row of rows_to_write
ReportRow(exc) ==
    [hash |-> exc.hash, exception_type |-> exc.exception_type,
     ms_form_amount |-> exc.ms_form_amount, tronscan_amount |-> exc.tronscan_amount,
     difference |-> exc.difference, severity |-> _get_severity(exc)]

CountOf(list, t) == Cardinality({i \in 1..Len(list) : list[i].exception_type = t})

\* the dict type_counts: only the types that occur have a key
TypeCounts(list) ==
    [t \in {list[i].exception_type : i \in 1..Len(list)} |-> CountOf(list, t)]

RECURSIVE TotalDiff(_)
TotalDiff(list) ==
    IF list = <<>> THEN 0
    ELSE TotalDiff(Tail(list))
         + (IF Head(list).exception_type # "MATCHED" THEN Head(list).difference ELSE 0)

\* variant: the denominator counts a hash of both sheets twice
MatchRate_double(counts, A, B) ==
    LET matched_count == IF "MATCHED" \in DOMAIN counts THEN counts["MATCHED"] ELSE 0
        total_unique == Cardinality(DOMAIN A) + Cardinality(DOMAIN B)
    IN  IF total_unique > 0 THEN <<matched_count * 100, total_unique>> ELSE <<0, 1>>

\* main: matched_count / total_unique * 100, 0 when total_unique = 0
MatchRate(counts, A, B) ==
    LET matched_count == IF "MATCHED" \in DOMAIN counts THEN counts["MATCHED"] ELSE 0
        total_unique == Cardinality(DOMAIN A \cup DOMAIN B)
    IN  IF total_unique > 0 THEN <<matched_count * 100, total_unique>> ELSE <<0, 1>>

----------------------------------------------------------------------------
\* decimal.Decimal as used by src/tronscan_api.py.  A string is a sequence of
\* one-character strings; a Decimal is [sign, int, exp] with int the sequence
\* of the digits of the coefficient, so that no number of the model is
\* limited by the width of an integer.

\* variant: the 15 to 17 significant digits of a binary double
Prec_double == 15 + 2

\* getcontext().prec
Prec == 28

DigitChars == {"0", "1", "2", "3", "4", "5", "6", "7", "8", "9"}

DigitVal(c) ==
    CASE c = "0" -> 0 [] c = "1" -> 1 [] c = "2" -> 2 [] c = "3" -> 3 [] c = "4" -> 4
      [] c = "5" -> 5 [] c = "6" -> 6 [] c = "7" -> 7 [] c = "8" -> 8 [] c = "9" -> 9

DigitChar(n) ==
    CASE n = 0 -> "0" [] n = 1 -> "1" [] n = 2 -> "2" [] n = 3 -> "3" [] n = 4 -> "4"
      [] n = 5 -> "5" [] n = 6 -> "6" [] n = 7 -> "7" [] n = 8 -> "8" [] n = 9 -> "9"

Zeros(n) == [i \in 1..n |-> 0]

AllZero(ds) == \A i \in 1..Len(ds) : ds[i] = 0

\* the digits of int(...) of a digit string: no leading zero, <<0>> for zero
RECURSIVE StripLeadingZeros(_)
StripLeadingZeros(ds) ==
    IF ds = <<>> THEN <<0>>
    ELSE IF ds[1] = 0 THEN StripLeadingZeros(Tail(ds))
    ELSE ds

\* str(n) of a non-negative integer given by its digits
IntStr(ds) == [i \in 1..Len(ds) |-> DigitChar(ds[i])]

\* the digits of n + 1
RECURSIVE PlusOne(_)
PlusOne(ds) ==
    IF ds = <<>> THEN <<1>>
    ELSE IF ds[Len(ds)] < 9 THEN [ds EXCEPT ![Len(ds)] = @ + 1]
    ELSE Append(PlusOne(SubSeq(ds, 1, Len(ds) - 1)), 0)

\* the digits of a natural number of the model, and back
RECURSIVE NatDigits(_)
NatDigits(n) == IF n < 10 THEN <<n>> ELSE Append(NatDigits(n \div 10), n % 10)

RECURSIVE DigitsNat(_)
DigitsNat(ds) == IF ds = <<>> THEN 0 ELSE 10 * DigitsNat(SubSeq(ds, 1, Len(ds) - 1)) + ds[Len(ds)]

IsDigitString(str) == str # <<>> /\ \A i \in 1..Len(str) : str[i] \in DigitChars

\* the exception raised by Decimal(str) for a string that is not a number
InvalidOperation == [ok |-> FALSE]

\* the value Decimal(str) has once the string is split into its parts
ParsedParts(negative, intpart, fracpart, hasexp, expnegative, expdigits) ==
    IF \/ ~IsDigitString(intpart \o fracpart)
       \/ (hasexp /\ ~IsDigitString(expdigits))
    THEN InvalidOperation
    ELSE [ok |-> TRUE,
          sign |-> IF negative THEN 1 ELSE 0,
          int |-> StripLeadingZeros([i \in 1..(Len(intpart) + Len(fracpart)) |->
                                        DigitVal((intpart \o fracpart)[i])]),
          exp |-> (IF ~hasexp THEN 0
                   ELSE IF expnegative
                        THEN -DigitsNat([i \in 1..Len(expdigits) |-> DigitVal(expdigits[i])])
                        ELSE DigitsNat([i \in 1..Len(expdigits) |-> DigitVal(expdigits[i])]))
                  - Len(fracpart)]

\* the mantissa digits [. digits] and the exponent [sign] digits
ParseMantissa(negative, body, hasexp, exppart) ==
    LET dots == {i \in 1..Len(body) : body[i] = "."}
        dot == IF dots = {} THEN Len(body) + 1 ELSE CHOOSE i \in dots : TRUE
        expsigned == Len(exppart) > 0 /\ exppart[1] \in {"-", "+"}
    IN  IF Cardinality(dots) > 1 THEN InvalidOperation
        ELSE ParsedParts(negative, SubSeq(body, 1, dot - 1), SubSeq(body, dot + 1, Len(body)),
                         hasexp, expsigned /\ exppart[1] = "-",
                         IF expsigned THEN Tail(exppart) ELSE exppart)

ParseUnsigned(negative, unsigned) ==
    LET es == {i \in 1..Len(unsigned) : unsigned[i] \in {"E", "e"}}
        epos == IF es = {} THEN Len(unsigned) + 1 ELSE CHOOSE i \in es : \A j \in es : i <= j
    IN  ParseMantissa(negative, SubSeq(unsigned, 1, epos - 1), es # {},
                      SubSeq(unsigned, epos + 1, Len(unsigned)))

\* Decimal(str): [sign] digits [. digits] [E [sign] digits]; anything else
\* raises InvalidOperation
ParseDecimal(str) ==
    IF Len(str) > 0 /\ str[1] \in {"-", "+"}
    THEN ParseUnsigned(str[1] = "-", Tail(str))
    ELSE ParseUnsigned(FALSE, str)

\* the text of a Decimal with the given digits, the point after dotplace
\* digits and the exponent e
DecimalText(negative, digits, dotplace, e) ==
    (IF negative THEN <<"-">> ELSE <<>>)
    \o (IF dotplace <= 0 THEN <<"0">>
        ELSE IF dotplace >= Len(digits)
             THEN digits \o [i \in 1..(dotplace - Len(digits)) |-> "0"]
             ELSE SubSeq(digits, 1, dotplace))
    \o (IF dotplace <= 0
        THEN <<".">> \o [i \in 1..(-dotplace) |-> "0"] \o digits
        ELSE IF dotplace >= Len(digits) THEN <<>>
        ELSE <<".">> \o SubSeq(digits, dotplace + 1, Len(digits)))
    \o (IF e = 0 THEN <<>>
        ELSE <<"E", IF e < 0 THEN "-" ELSE "+">> \o IntStr(NatDigits(IF e < 0 THEN -e ELSE e)))

\* Decimal.__str__: scientific notation when the exponent is positive or the
\* number is below 1E-6
DecimalStr(x) ==
    LET leftdigits == x.exp + Len(x.int)
        dotplace == IF x.exp <= 0 /\ leftdigits > -6 THEN leftdigits ELSE 1
    IN  DecimalText(x.sign = 1, IntStr(x.int), dotplace, leftdigits - dotplace)

\* number of zero digits at the end of a coefficient
RECURSIVE TrailingZeros(_)
TrailingZeros(ds) ==
    IF ds = <<>> \/ ds[Len(ds)] # 0 THEN 0
    ELSE 1 + TrailingZeros(SubSeq(ds, 1, Len(ds) - 1))

Min(a, b) == IF a < b THEN a ELSE b

\* the coefficient after rounding: a carry into a new digit drops the last one
Rounded(sign, coeff, exp_min) ==
    IF Len(coeff) > Prec
    THEN [ok |-> TRUE, sign |-> sign, int |-> SubSeq(coeff, 1, Len(coeff) - 1),
          exp |-> exp_min + 1]
    ELSE [ok |-> TRUE, sign |-> sign, int |-> coeff, exp |-> exp_min]

\* ROUND_HALF_EVEN of kept followed by dropped
RoundHalfEven(sign, kept, dropped, exp_min) ==
    IF IF dropped[1] = 5 /\ AllZero(Tail(dropped))
       THEN kept[Len(kept)] % 2 = 1
       ELSE dropped[1] >= 5
    THEN Rounded(sign, PlusOne(kept), exp_min)
    ELSE Rounded(sign, kept, exp_min)

\* Decimal._fix: round the coefficient to Prec digits
DecimalFix(sign, int, exp) ==
    IF Len(int) <= Prec THEN [ok |-> TRUE, sign |-> sign, int |-> int, exp |-> exp]
    ELSE RoundHalfEven(sign, SubSeq(int, 1, Prec), SubSeq(int, Prec + 1, Len(int)),
                       Len(int) + exp - Prec)

\* the end of Decimal.__truediv__: an inexact quotient ending in 0 or 5 is
\* bumped, an exact one sheds zeros towards the ideal exponent
Quotient(sign, quotient, remainder, exp, ideal_exp) ==
    IF remainder
    THEN DecimalFix(sign,
                    IF quotient[Len(quotient)] \in {0, 5}
                    THEN [quotient EXCEPT ![Len(quotient)] = @ + 1]
                    ELSE quotient,
                    exp)
    ELSE IF quotient = <<0>>
    THEN DecimalFix(sign, <<0>>, IF ideal_exp > exp THEN ideal_exp ELSE exp)
    ELSE IF ideal_exp <= exp
    THEN DecimalFix(sign, quotient, exp)
    ELSE DecimalFix(sign,
                    SubSeq(quotient, 1,
                           Len(quotient) - Min(ideal_exp - exp, TrailingZeros(quotient))),
                    exp + Min(ideal_exp - exp, TrailingZeros(quotient)))

\* divmod(numerator, 10^cut)
DivMod(sign, numerator, cut, exp, ideal_exp) ==
    Quotient(sign,
             StripLeadingZeros(SubSeq(numerator, 1, Len(numerator) - cut)),
             ~AllZero(SubSeq(numerator, Len(numerator) - cut + 1, Len(numerator))),
             exp, ideal_exp)

\* Decimal.__truediv__ of x by Decimal(10) ** decimals (coefficient 1 and
\* decimals zeros, exponent 0)
DecimalDivPow10(x, decimals) ==
    LET shift == (decimals + 1) - Len(x.int) + Prec + 1
    IN  IF shift >= 0
        THEN DivMod(x.sign, x.int \o Zeros(shift), decimals, x.exp - shift, x.exp)
        ELSE DivMod(x.sign, x.int, decimals - shift, x.exp - shift, x.exp)

\* the Decimal equals the non-negative integer with the given digits
DecimalEqualsInt(x, ds) ==
    IF ~x.ok THEN FALSE
    ELSE IF x.int = <<0>> THEN ds = <<0>>
    ELSE /\ x.sign = 0
         /\ IF x.exp >= 0
            THEN x.int \o Zeros(x.exp) = ds
            ELSE /\ Len(x.int) > -x.exp
                 /\ AllZero(SubSeq(x.int, Len(x.int) + x.exp + 1, Len(x.int)))
                 /\ SubSeq(x.int, 1, Len(x.int) + x.exp) = ds

----------------------------------------------------------------------------
\* src/historical_price_fetcher.py.  Prices are integers in units of 1E-8
\* USD; a timestamp is a count of half days, so two timestamps share a date.

\* str.upper() on the token symbols of the model
Upper(symbol) ==
    CASE symbol = "usdt" -> "USDT"
      [] symbol = "btt" -> "BTT"
      [] OTHER -> symbol

DayOf(timestamp) == timestamp \div 2

\* keys of HistoricalPriceFetcher.token_mapping
token_mapping ==
    {"TRX", "USDT", "USDC", "BTT", "JST", "SUN", "WIN", "JUST", "NFT", "USDJ", "TUSD", "LIVE"}

\* HistoricalPriceFetcher._get_fallback_price
FetcherFallbackPrice(token_symbol) ==
    CASE token_symbol = "TRX" -> 12000000
      [] token_symbol = "USDT" -> 100000000
      [] token_symbol = "USDC" -> 100000000
      [] token_symbol = "BTT" -> 80
      [] token_symbol = "JST" -> 2500000
      [] token_symbol = "SUN" -> 600000
      [] token_symbol = "WIN" -> 8000
      [] token_symbol = "JUST" -> 2500000
      [] token_symbol = "NFT" -> 50
      [] token_symbol = "USDJ" -> 100000000
      [] token_symbol = "TUSD" -> 100000000
      [] token_symbol = "LIVE" -> 100000
      [] OTHER -> 0

\* what the price service does with one request: it fails, it answers
\* without a usd price, or it answers with a price
ServiceOutcomes ==
    {[kind |-> "error", usd |-> 0], [kind |-> "no_usd", usd |-> 0],
     [kind |-> "price", usd |-> 99000000]}

\* variant: a failed request gives 0
_fetch_historical_price_from_coingecko_zero(token_symbol, outcome) ==
    IF token_symbol \notin token_mapping THEN FetcherFallbackPrice(token_symbol)
    ELSE IF outcome.kind = "price" THEN outcome.usd
    ELSE 0

\* HistoricalPriceFetcher._fetch_historical_price_from_coingecko: never raises
_fetch_historical_price_from_coingecko(token_symbol, outcome) ==
    IF token_symbol \notin token_mapping THEN FetcherFallbackPrice(token_symbol)
    ELSE IF outcome.kind = "price" THEN outcome.usd
    ELSE FetcherFallbackPrice(token_symbol)

\* the cache with price stored under cache_key
Stored(cache, cache_key, price) ==
    [k \in DOMAIN cache \cup {cache_key} |-> IF k = cache_key THEN price ELSE cache[k]]

\* variant: the cache is not consulted
get_historical_price_uncached(cache, symbol, timestamp, outcome) ==
    [price |-> _fetch_historical_price_from_coingecko(Upper(symbol), outcome),
     cache |-> Stored(cache, <<Upper(symbol), DayOf(timestamp)>>,
                      _fetch_historical_price_from_coingecko(Upper(symbol), outcome)),
     requested |-> Upper(symbol) \in token_mapping]

\* HistoricalPriceFetcher.get_historical_price: the price, the cache
\* afterwards and whether the price service was asked
get_historical_price(cache, symbol, timestamp, outcome) ==
    IF <<Upper(symbol), DayOf(timestamp)>> \in DOMAIN cache
    THEN [price |-> cache[<<Upper(symbol), DayOf(timestamp)>>], cache |-> cache,
          requested |-> FALSE]
    ELSE [price |-> _fetch_historical_price_from_coingecko(Upper(symbol), outcome),
          cache |-> Stored(cache, <<Upper(symbol), DayOf(timestamp)>>,
                           _fetch_historical_price_from_coingecko(Upper(symbol), outcome)),
          requested |-> Upper(symbol) \in token_mapping]

\* HistoricalPriceFetcher.clear_cache
clear_cache(cache) == <<>>

----------------------------------------------------------------------------
\* src/tronscan_api.py

\* TronScanAPI.token_decimals with its .get(..., 6)
token_decimals(token_symbol) ==
    CASE token_symbol \in {"BTT", "JST", "SUN", "JUST", "USDJ", "TUSD"} -> 18
      [] OTHER -> 6

\* TronScanAPI._get_fallback_price
ApiFallbackPrice(symbol) ==
    LET token_symbol == Upper(symbol)
    IN  CASE token_symbol = "TRX" -> 12000000
          [] token_symbol = "USDT" -> 100000000
          [] token_symbol = "USDC" -> 100000000
          [] token_symbol = "BTT" -> 80
          [] token_symbol = "JST" -> 2500000
          [] token_symbol = "SUN" -> 600000
          [] token_symbol = "WIN" -> 8000
          [] OTHER -> 0

\* An optional value is <<>> when absent (None, or a missing key) and <<v>>
\* when present.
Absent == <<>>
Present(v) == <<v>>

\* f"{float(amount) * price:.6f}": the product is kept as its two factors;
\* fmt tells the literal '0.0' from a formatted number
UsdValue(amount, price) == [fmt |-> ".6f", amount |-> amount, price |-> price]
PriceText(price) == [fmt |-> ".8f", price |-> price]
ZeroUsd == [fmt |-> "0.0", amount |-> <<"0">>, price |-> 0]
ZeroPrice == [fmt |-> "0.0", price |-> 0]

\* the dict of a successful conversion, with the cache the price lookup left
Converted(raw_amount, formatted, lookup) ==
    [result |-> [amount_raw |-> raw_amount,
                 amount_formatted |-> formatted,
                 amount_usdt |-> UsdValue(formatted, lookup.price),
                 token_price_usdt |-> PriceText(lookup.price)],
     cache |-> lookup.cache]

\* lines 102-119: raw_decimal is Decimal(str(raw_amount))
ConvertDecimal(cache, raw_amount, raw_decimal, token_symbol, decimals, timestamp, outcome) ==
    IF ~raw_decimal.ok
    THEN \* except Exception
         [result |-> [amount_raw |-> raw_amount, amount_formatted |-> raw_amount,
                      amount_usdt |-> ZeroUsd, token_price_usdt |-> ZeroPrice],
          cache |-> cache]
    ELSE Converted(raw_amount,
                   DecimalStr(DecimalDivPow10(raw_decimal, decimals)),
                   IF timestamp > 0
                   THEN get_historical_price(cache, token_symbol, timestamp, outcome)
                   ELSE [price |-> ApiFallbackPrice(token_symbol), cache |-> cache])

\* variant: the raw amount "0" is converted like any other
_convert_amount_to_readable_zero_converted(cache, raw_amount, token_symbol, decimals, timestamp, outcome) ==
    IF raw_amount = <<>>
    THEN [result |-> [amount_raw |-> <<"0">>, amount_formatted |-> <<"0">>,
                      amount_usdt |-> ZeroUsd, token_price_usdt |-> ZeroPrice],
          cache |-> cache]
    ELSE ConvertDecimal(cache, raw_amount, ParseDecimal(raw_amount), token_symbol,
                        IF decimals = Absent THEN token_decimals(Upper(token_symbol))
                        ELSE decimals[1],
                        timestamp, outcome)

\* TronScanAPI._convert_amount_to_readable: the dict returned and the price
\* cache afterwards.  decimals is optional; outcome is what the price service
\* does if it is asked.
_convert_amount_to_readable(cache, raw_amount, token_symbol, decimals, timestamp, outcome) ==
    IF raw_amount = <<>> \/ raw_amount = <<"0">>
    THEN [result |-> [amount_raw |-> <<"0">>, amount_formatted |-> <<"0">>,
                      amount_usdt |-> ZeroUsd, token_price_usdt |-> ZeroPrice],
          cache |-> cache]
    ELSE ConvertDecimal(cache, raw_amount, ParseDecimal(raw_amount), token_symbol,
                        IF decimals = Absent THEN token_decimals(Upper(token_symbol))
                        ELSE decimals[1],
                        timestamp, outcome)

\* one element of the list of _extract_token_transfers
ExtractedTransfer(type, transfer) ==
    [type |-> type,
     token_symbol |-> Upper(transfer.symbol),
     contract_address |-> IF type = "TRC20" THEN transfer.contract_address ELSE "",
     amount_str |-> IF transfer.amount_str = Absent THEN <<"0">> ELSE transfer.amount_str[1],
     decimals |-> IF transfer.decimals = Absent THEN 6 ELSE transfer.decimals[1],
     from_address |-> transfer.from_address,
     to_address |-> transfer.to_address]

\* variant: the TRC10 list is not read
_extract_token_transfers_trc20_only(t) ==
    IF t.trc20TransferInfo = Absent THEN <<>>
    ELSE [i \in 1..Len(t.trc20TransferInfo[1]) |->
             ExtractedTransfer("TRC20", t.trc20TransferInfo[1][i])]

\* TronScanAPI._extract_token_transfers: an absent key and an empty list both
\* contribute nothing
_extract_token_transfers(t) ==
    (IF t.trc20TransferInfo = Absent THEN <<>>
     ELSE [i \in 1..Len(t.trc20TransferInfo[1]) |->
              ExtractedTransfer("TRC20", t.trc20TransferInfo[1][i])])
    \o
    (IF t.tokenTransferInfo = Absent THEN <<>>
     ELSE [i \in 1..Len(t.tokenTransferInfo[1]) |->
              ExtractedTransfer("TRC10", t.tokenTransferInfo[1][i])])

\* variant: the generic value field is read before the amount field
_extract_trx_value_value_first(t) ==
    IF t.value # Absent THEN t.value[1]
    ELSE IF t.amount # Absent THEN t.amount[1]
    ELSE IF t.contractData # Absent /\ ~t.contractData[1].empty
         THEN IF t.contractData[1].amount = Absent THEN <<"0">>
              ELSE t.contractData[1].amount[1]
    ELSE <<"0">>

\* TronScanAPI._extract_trx_value
_extract_trx_value(t) ==
    IF t.amount # Absent THEN t.amount[1]
    ELSE IF t.value # Absent THEN t.value[1]
    ELSE IF t.contractData # Absent /\ ~t.contractData[1].empty
         THEN IF t.contractData[1].amount = Absent THEN <<"0">>
              ELSE t.contractData[1].amount[1]
    ELSE <<"0">>

\* the record of one transfer: the shared fields, the transfer's own fields
\* and the converted amounts
TransferRecord(timestamp, from_address, to_address, amount_data, token_symbol, contract_address, transfer_type) ==
    [timestamp |-> timestamp,
     from_address |-> from_address,
     to_address |-> to_address,
     amount_raw |-> amount_data.amount_raw,
     amount_formatted |-> amount_data.amount_formatted,
     amount_usdt |-> amount_data.amount_usdt,
     token_price_usdt |-> amount_data.token_price_usdt,
     token_symbol |-> token_symbol,
     contract_address |-> contract_address,
     transfer_type |-> transfer_type]

AppendTransfer(acc, transfer, timestamp, conv) ==
    [results |-> Append(acc.results,
                        TransferRecord(timestamp, transfer.from_address, transfer.to_address,
                                       conv.result, transfer.token_symbol,
                                       transfer.contract_address, transfer.type)),
     cache |-> conv.cache]

\* one pass of the loop over token_transfers: acc holds the records appended
\* so far and the price cache
NormalizeTransfer(acc, transfer, timestamp, outcome) ==
    AppendTransfer(acc, transfer, timestamp,
                   _convert_amount_to_readable(acc.cache, transfer.amount_str,
                       transfer.token_symbol, Present(transfer.decimals), timestamp, outcome))

\* the loop over token_transfers from the i-th transfer on, the i-th transfer
\* seeing the i-th outcome of the price service
RECURSIVE NormalizeTransfers(_, _, _, _, _)
NormalizeTransfers(transfers, i, acc, timestamp, outcomes) ==
    IF i > Len(transfers) THEN acc
    ELSE NormalizeTransfers(transfers, i + 1,
                            NormalizeTransfer(acc, transfers[i], timestamp, outcomes[i]),
                            timestamp, outcomes)

\* the else branch: one native TRX record
NativeRecord(t, conv) ==
    [results |-> <<TransferRecord(t.timestamp, t.ownerAddress, t.toAddress, conv.result,
                                  "TRX", "", "TRX")>>,
     cache |-> conv.cache]

\* the if branch on the extracted list
NormalizeExtracted(t, token_transfers, cache, outcomes) ==
    IF token_transfers # <<>>
    THEN NormalizeTransfers(token_transfers, 1, [results |-> <<>>, cache |-> cache],
                            t.timestamp, outcomes)
    ELSE NativeRecord(t, _convert_amount_to_readable(cache, _extract_trx_value(t), "TRX",
                                                     Present(6), t.timestamp, outcomes[1]))

\* TronScanAPI._normalize_transaction: the list returned and the price cache
\* afterwards.  The fields every record copies from the transaction (hash,
\* block, fee, status, transaction type, date) are left out but the timestamp.
_normalize_transaction(t, cache, outcomes) ==
    NormalizeExtracted(t, _extract_token_transfers(t), cache, outcomes)

----------------------------------------------------------------------------
\* 02_sync_ms_form.py

\* variant: the listed categories give the negative sign
CategorySign_inverted(cat, listed) == IF cat \in listed THEN 1 ELSE 0

\* the sign the category branch gives: abs() for a listed category, -abs()
\* for any other
CategorySign(cat, listed) == IF cat \in listed THEN 0 ELSE 1

\* MSFormSyncer.negative_categories
negative_categories ==
    {"MARKETING - REIMBURSEMENT", "EXPENSE - REIMBURSEMENT", "REFUND", "CHARGEBACK",
     "WITHDRAWAL"}

\* re.sub(r'[,$\s]', '', amount_str)
RECURSIVE RemoveSeparators(_)
RemoveSeparators(str) ==
    IF str = <<>> THEN <<>>
    ELSE IF Head(str) \in {",", "$", " "} THEN RemoveSeparators(Tail(str))
    ELSE <<Head(str)>> \o RemoveSeparators(Tail(str))

\* str.strip('()')
RECURSIVE StripParens(_)
StripParens(str) ==
    IF str = <<>> THEN <<>>
    ELSE IF Head(str) \in {"(", ")"} THEN StripParens(Tail(str))
    ELSE IF str[Len(str)] \in {"(", ")"} THEN StripParens(SubSeq(str, 1, Len(str) - 1))
    ELSE str

\* a float as sign, decimal digits and exponent; 0.0 and -0.0 are zero
FloatZero == [ok |-> TRUE, sign |-> 0, int |-> <<0>>, exp |-> 0]

\* float(str) for the decimal literals of the model; ok is FALSE for ValueError
ParseFloat(str) == ParseDecimal(str)

\* variant: the ValueError of float() reaches the caller
SignedAmount_raising(base_amount, is_parentheses_negative, cat) ==
    IF ~base_amount.ok
    THEN base_amount
    ELSE IF is_parentheses_negative
    THEN [base_amount EXCEPT !.sign = 1]
    ELSE [base_amount EXCEPT !.sign = CategorySign(cat, negative_categories)]

\* lines 206-220: the sign given to the parsed amount
SignedAmount(base_amount, is_parentheses_negative, cat) ==
    IF ~base_amount.ok
    THEN FloatZero   \* except Exception: return 0.0
    ELSE IF is_parentheses_negative
    THEN [base_amount EXCEPT !.sign = 1]
    ELSE [base_amount EXCEPT !.sign = CategorySign(cat, negative_categories)]

\* lines 201-206 on the cleaned string
ExtractCleaned(cleaned, is_parentheses_negative, cat) ==
    IF is_parentheses_negative
    THEN SignedAmount(IF StripParens(cleaned) # <<>> THEN ParseFloat(StripParens(cleaned))
                      ELSE FloatZero,
                      TRUE, cat)
    ELSE SignedAmount(IF cleaned # <<>> THEN ParseFloat(cleaned) ELSE FloatZero, FALSE, cat)

StartsAndEndsWithParens(cleaned) ==
    /\ cleaned # <<>>
    /\ cleaned[1] = "("
    /\ cleaned[Len(cleaned)] = ")"

\* MSFormSyncer._extract_amount_with_category_logic
_extract_amount_with_category_logic(str, cat) ==
    IF str = <<>> THEN FloatZero
    ELSE ExtractCleaned(RemoveSeparators(str), StartsAndEndsWithParens(RemoveSeparators(str)),
                        cat)

----------------------------------------------------------------------------
\* MSFormSyncer._extract_hash_from_url

\* number of characters of a transaction hash in both patterns
HashLength == 64

HexChars ==
    DigitChars \cup {"a", "b", "c", "d", "e", "f", "A", "B", "C", "D", "E", "F"}

\* 'tronscan.org'
TronscanOrg == <<"t", "r", "o", "n", "s", "c", "a", "n", ".", "o", "r", "g">>

\* '/transaction/'
TransactionPath == <<"/", "t", "r", "a", "n", "s", "a", "c", "t", "i", "o", "n", "/">>

OccursAt(str, sub, i) ==
    /\ i + Len(sub) - 1 <= Len(str)
    /\ SubSeq(str, i, i + Len(sub) - 1) = sub

\* sub in str
Contains(str, sub) == \E i \in 1..Len(str) : OccursAt(str, sub, i)

\* variant: any HashLength characters are taken for a hash
HexRun_any(str, i) == i + HashLength - 1 <= Len(str)

\* [a-fA-F0-9]{64} matches at position i
HexRun(str, i) ==
    /\ i + HashLength - 1 <= Len(str)
    /\ \A j \in i..(i + HashLength - 1) : str[j] \in HexChars

\* the positions where the pattern of re.search matches
TransactionMatches(str) ==
    {i \in 1..Len(str) :
        OccursAt(str, TransactionPath, i) /\ HexRun(str, i + Len(TransactionPath))}

\* group(1) of the leftmost match
FirstGroup(str, matches) ==
    SubSeq(str,
           (CHOOSE i \in matches : \A j \in matches : i <= j) + Len(TransactionPath),
           (CHOOSE i \in matches : \A j \in matches : i <= j) + Len(TransactionPath)
               + HashLength - 1)

\* re.match(r'^[a-fA-F0-9]{64}$', raw_hash): $ also matches before a final newline
IsDirectHash(str) ==
    /\ HexRun(str, 1)
    /\ \/ Len(str) = HashLength
       \/ Len(str) = HashLength + 1 /\ str[Len(str)] = "\n"

\* MSFormSyncer._extract_hash_from_url
_extract_hash_from_url(str) ==
    IF str = <<>> THEN <<>>
    ELSE IF Contains(str, TronscanOrg) /\ TransactionMatches(str) # {}
    THEN FirstGroup(str, TransactionMatches(str))
    ELSE IF IsDirectHash(str) THEN str
    ELSE str

----------------------------------------------------------------------------
\* ExceptionAnalyzer.read_ms_form_data and read_tronscan_data.  A sheet is
\* the list all_values: [header |-> the first row, stripped and in lower
\* case, rows |-> the other rows]; the empty list has no header.  A hash cell
\* holds the number of a hash, EmptyCell or TotalCell; an amount cell holds
\* hundredths.

EmptyCell == 0

\* the text 'TOTAL' in a hash cell
TotalCell == 0 - 1

\* the hash cells whose text in upper case is 'TOTAL': 'TOTAL' and 'total'
TotalCells == {TotalCell, TotalCell - 1}

\* the headers of the model with 'trxhash' in header or 'hash' in header
ContainsHash == {"trxhash", "hash", "txn hash"}

\* the headers of the model with 'amount' in header or 'usdt' in header
ContainsAmount == {"amount", "usdt amount"}

\* the last column whose header passes the test of the loop, 0 for None
LastColumn(header, matching) ==
    IF \A i \in 1..Len(header) : header[i] \notin matching THEN 0
    ELSE CHOOSE i \in 1..Len(header) :
             /\ header[i] \in matching
             /\ \A j \in 1..Len(header) : header[j] \in matching => j <= i

\* the rows that get an entry of the dict
KeptRows(data_rows, hash_col, skipped) ==
    {i \in 1..Len(data_rows) : data_rows[i][hash_col] # EmptyCell /\ data_rows[i][hash_col] \notin skipped}

\* the row of the sheet whose entry the dict holds for a hash: a later row
\* replaces an earlier row of the same hash; rows are numbered from 2
RowNumbers(data_rows, kept, hash_col) ==
    [h \in {data_rows[i][hash_col] : i \in kept} |->
        1 + CHOOSE i \in kept :
                /\ data_rows[i][hash_col] = h
                /\ \A j \in kept : data_rows[j][hash_col] = h => j <= i]

\* variant: the first row of a hash is the one that stays
RowsToDict_first_row(data_rows, kept, hash_col, amount_col) ==
    [h \in {data_rows[i][hash_col] : i \in kept} |->
        IF amount_col = 0 THEN 0
        ELSE data_rows[CHOOSE i \in kept :
                      /\ data_rows[i][hash_col] = h
                      /\ \A j \in kept : data_rows[j][hash_col] = h => i <= j][amount_col]]

\* the dict built by the loop over data_rows: a later row replaces an
\* earlier row of the same hash
RowsToDict(data_rows, kept, hash_col, amount_col) ==
    [h \in {data_rows[i][hash_col] : i \in kept} |->
        IF amount_col = 0 THEN 0
        ELSE data_rows[CHOOSE i \in kept :
                      /\ data_rows[i][hash_col] = h
                      /\ \A j \in kept : data_rows[j][hash_col] = h => j <= i][amount_col]]

\* read_ms_form_data: the dict returned and the error logged
read_ms_form_data(sheet) ==
    IF sheet.header = <<>> THEN [data |-> <<>>, errors |-> {}]
    ELSE IF LastColumn(sheet.header, ContainsHash) = 0
    THEN [data |-> <<>>, errors |-> {"Could not find TrxHash column in MS_FORM"}]
    ELSE [data |-> RowsToDict(sheet.rows,
                              KeptRows(sheet.rows, LastColumn(sheet.header, ContainsHash), {}),
                              LastColumn(sheet.header, ContainsHash),
                              LastColumn(sheet.header, ContainsAmount)),
          errors |-> {}]

\* read_tronscan_data: without a wallet column the first kept row raises a
\* TypeError, which the outer except turns into {}
read_tronscan_data(sheet) ==
    IF sheet.header = <<>> THEN [data |-> <<>>, errors |-> {}]
    ELSE IF LastColumn(sheet.header, {"hash"}) = 0 \/ LastColumn(sheet.header, {"amt"}) = 0
    THEN [data |-> <<>>, errors |-> {"Could not find required columns in TRONSCAN"}]
    ELSE IF /\ LastColumn(sheet.header, {"wallet"}) = 0
            /\ KeptRows(sheet.rows, LastColumn(sheet.header, {"hash"}), TotalCells) # {}
    THEN [data |-> <<>>, errors |-> {"Failed to read TRONSCAN"}]
    ELSE [data |-> RowsToDict(sheet.rows,
                              KeptRows(sheet.rows, LastColumn(sheet.header, {"hash"}), TotalCells),
                              LastColumn(sheet.header, {"hash"}),
                              LastColumn(sheet.header, {"amt"})),
          errors |-> {}]

----------------------------------------------------------------------------
\* main of scripts/exception_analysis.py

NoRate == <<0, 0>>

ReconInit ==
    /\ ms_form_data \in Dicts
    /\ tronscan_data \in Dicts
    /\ tolerance \in Tolerances
    /\ exceptions = <<>>
    /\ rows = <<>>
    /\ type_counts = <<>>
    /\ total_diff = 0
    /\ match_rate = NoRate
    /\ pc = "read"
    /\ prev_rows = <<>>
    /\ runs = 1

\* both sheets empty: sys.exit(1)
ExitNoData ==
    /\ pc = "read"
    /\ ms_form_data = <<>> /\ tronscan_data = <<>>
    /\ pc' = "exit"
    /\ UNCHANGED <<ms_form_data, tronscan_data, tolerance, exceptions, rows,
                   type_counts, total_diff, match_rate, prev_rows, runs>>
    /\ UNCHANGED <<chainVars, ledgerVars, sideVars>>

Analyze ==
    /\ pc = "read"
    /\ ~(ms_form_data = <<>> /\ tronscan_data = <<>>)
    /\ \E order \in IterationOrders(all_hashes(ms_form_data, tronscan_data)) :
          exceptions' = analyze_exceptions(ms_form_data, tronscan_data, tolerance, order)
    /\ pc' = "analyzed"
    /\ UNCHANGED <<ms_form_data, tronscan_data, tolerance, rows,
                   type_counts, total_diff, match_rate, prev_rows, runs>>
    /\ UNCHANGED <<chainVars, ledgerVars, sideVars>>

WriteExceptions ==
    /\ pc = "analyzed"
    /\ exceptions' = SortExceptions(exceptions)
    /\ rows' = [i \in 1..Len(exceptions) |-> ReportRow(exceptions'[i])]
    /\ type_counts' = TypeCounts(exceptions')
    /\ total_diff' = TotalDiff(exceptions')
    /\ pc' = "written"
    /\ UNCHANGED <<ms_form_data, tronscan_data, tolerance, match_rate, prev_rows, runs>>
    /\ UNCHANGED <<chainVars, ledgerVars, sideVars>>

Summary ==
    /\ pc = "written"
    /\ match_rate' = MatchRate(type_counts, ms_form_data, tronscan_data)
    /\ pc' = "done"
    /\ UNCHANGED <<ms_form_data, tronscan_data, tolerance, exceptions, rows,
                   type_counts, total_diff, prev_rows, runs>>
    /\ UNCHANGED <<chainVars, ledgerVars, sideVars>>

\* the script is started again on the same sheets with the same tolerance
RunAgain ==
    /\ pc = "done"
    /\ runs < MaxRuns
    /\ runs' = runs + 1
    /\ prev_rows' = rows
    /\ exceptions' = <<>>
    /\ rows' = <<>>
    /\ type_counts' = <<>>
    /\ total_diff' = 0
    /\ match_rate' = NoRate
    /\ pc' = "read"
    /\ UNCHANGED <<ms_form_data, tronscan_data, tolerance>>
    /\ UNCHANGED <<chainVars, ledgerVars, sideVars>>

ReconNext == ExitNoData \/ Analyze \/ WriteExceptions \/ Summary \/ RunAgain

ReconIdle ==
    /\ ms_form_data = <<>>
    /\ tronscan_data = <<>>
    /\ tolerance = DefaultTolerance
    /\ exceptions = <<>>
    /\ rows = <<>>
    /\ type_counts = <<>>
    /\ total_diff = 0
    /\ match_rate = NoRate
    /\ pc = "idle"
    /\ prev_rows = <<>>
    /\ runs = 0

----------------------------------------------------------------------------
\* Inputs and steps of the chain side

MaxTransfers == 2
MaxTrc10 == 1
MaxAmountDigits == 30

\* the empty price cache and a cache left by earlier transactions
EmptyCache == <<>>
WarmCache == [k \in {<<"USDT", 0>>} |-> 101000000]

Timestamps == {0, 1}

Str1500000 == <<"1", "5", "0", "0", "0", "0", "0">>
Str2E18 == IntStr(<<2>> \o Zeros(18))
StrAbc == <<"a", "b", "c">>

\* elements of trc20TransferInfo / tokenTransferInfo as the feed can send them
RawTransfers ==
    {[symbol |-> "usdt", contract_address |-> "TR7", amount_str |-> Present(Str1500000),
      decimals |-> Present(6), from_address |-> "TA", to_address |-> "TB"],
     [symbol |-> "BTT", contract_address |-> "TNU", amount_str |-> Present(Str2E18),
      decimals |-> Absent, from_address |-> "TB", to_address |-> "TA"],
     [symbol |-> "XYZ", contract_address |-> "", amount_str |-> Absent,
      decimals |-> Present(18), from_address |-> "TA", to_address |-> "TC"],
     [symbol |-> "JST", contract_address |-> "TCF", amount_str |-> Present(StrAbc),
      decimals |-> Present(18), from_address |-> "TC", to_address |-> "TA"]}

SeqsUpTo(S, n) == UNION {[1..k -> S] : k \in 0..n}

\* an absent key, or a list (possibly empty)
TransferLists(n) == {Absent} \cup {Present(l) : l \in SeqsUpTo(RawTransfers, n)}

ContractDatas ==
    {Absent,
     Present([empty |-> TRUE, amount |-> Absent]),
     Present([empty |-> FALSE, amount |-> Absent]),
     Present([empty |-> FALSE, amount |-> Present(<<"9">>)])}

AllRawTransactions ==
    [trc20TransferInfo : TransferLists(MaxTransfers),
     tokenTransferInfo : TransferLists(MaxTrc10),
     timestamp : Timestamps,
     amount : {Absent, Present(<<"5", "0", "0", "0", "0", "0", "0">>)},
     value : {Absent, Present(<<"0">>)},
     contractData : ContractDatas,
     ownerAddress : {"TA"},
     toAddress : {"TB"}]

\* the top-level value fields vary freely on a transaction without transfers
RawTransactions ==
    {t \in AllRawTransactions :
        _extract_token_transfers(t) # <<>> => (t.value = Absent /\ t.contractData = Absent)}

NoTx == [timestamp |-> 0]
NoResult == [amount_raw |-> <<>>]
NoArgs == [raw_amount |-> <<>>]
NoCall == [op |-> "none"]

ChainIdle ==
    /\ price_cache = EmptyCache
    /\ tx = NoTx
    /\ results = <<>>
    /\ npc = "idle"
    /\ conv_amount = <<>>
    /\ conv_args = NoArgs
    /\ conv_result = NoResult
    /\ cpc = "idle"
    /\ service_log = <<>>
    /\ price_call = NoCall
    /\ price_calls = 0

NormalizeInit ==
    /\ price_cache \in {EmptyCache, WarmCache}
    /\ tx \in RawTransactions
    /\ results = <<>>
    /\ npc = "idle"
    /\ conv_amount = <<>>
    /\ conv_args = NoArgs
    /\ conv_result = NoResult
    /\ cpc = "idle"
    /\ service_log = <<>>
    /\ price_call = NoCall
    /\ price_calls = 0

\* the transactions without a structured transfer
NativeTransactions == {t \in RawTransactions : _extract_token_transfers(t) = <<>>}

NativeInit ==
    /\ price_cache \in {EmptyCache, WarmCache}
    /\ tx \in NativeTransactions
    /\ results = <<>>
    /\ npc = "idle"
    /\ conv_amount = <<>>
    /\ conv_args = NoArgs
    /\ conv_result = NoResult
    /\ cpc = "idle"
    /\ service_log = <<>>
    /\ price_call = NoCall
    /\ price_calls = 0

\* number of calls of _convert_amount_to_readable for a transaction
NumConversions(t) ==
    IF _extract_token_transfers(t) = <<>> THEN 1 ELSE Len(_extract_token_transfers(t))

\* one call of _normalize_transaction; the price service answers each
\* request in any of its ways
NormalizeTransaction ==
    /\ npc = "idle"
    /\ \E outcomes \in [1..NumConversions(tx) -> ServiceOutcomes] :
          LET r == _normalize_transaction(tx, price_cache, outcomes)
          IN  /\ results' = r.results
              /\ price_cache' = r.cache
              /\ service_log' = outcomes
    /\ npc' = "done"
    /\ UNCHANGED <<tx, conv_amount, conv_args, conv_result, cpc, price_call, price_calls>>
    /\ UNCHANGED <<reconVars, ledgerVars, sideVars>>

\* integer amounts of 1..MaxAmountDigits digits: 10..01, 9..9 and 10..0,
\* with 0 and the 20000 of test_usdt_conversion
TestAmounts ==
    {<<0>>, <<2, 0, 0, 0, 0>>}
    \cup {<<1>> \o Zeros(n - 2) \o <<1>> : n \in 2..MaxAmountDigits}
    \cup {[i \in 1..n |-> 9] : n \in 1..MaxAmountDigits}
    \cup {<<1>> \o Zeros(n - 1) : n \in 1..MaxAmountDigits}

TestDecimals == {0, 6, 8, 18}

\* the digits of amount * 10^decimals
Scaled(amount, decimals) == IF amount = <<0>> THEN <<0>> ELSE amount \o Zeros(decimals)

ConvertInit ==
    /\ price_cache = EmptyCache
    /\ tx = NoTx
    /\ results = <<>>
    /\ npc = "idle"
    /\ conv_amount \in TestAmounts
    /\ \E d \in TestDecimals, ts \in Timestamps :
          conv_args = [raw_amount |-> IntStr(Scaled(conv_amount, d)),
                       token_symbol |-> "USDT", decimals |-> d, timestamp |-> ts]
    /\ conv_result = NoResult
    /\ cpc = "idle"
    /\ service_log = <<>>
    /\ price_call = NoCall
    /\ price_calls = 0

\* one call of _convert_amount_to_readable
ConvertAmount ==
    /\ cpc = "idle"
    /\ \E outcome \in ServiceOutcomes :
          LET r == _convert_amount_to_readable(price_cache, conv_args.raw_amount,
                       conv_args.token_symbol, Present(conv_args.decimals),
                       conv_args.timestamp, outcome)
          IN  /\ conv_result' = r.result
              /\ price_cache' = r.cache
              /\ service_log' = <<outcome>>
    /\ cpc' = "done"
    /\ UNCHANGED <<tx, results, npc, conv_amount, conv_args, price_call, price_calls>>
    /\ UNCHANGED <<reconVars, ledgerVars, sideVars>>

----------------------------------------------------------------------------
\* Inputs and steps of the price fetcher

MaxCalls == 3

OracleSymbols == {"usdt", "USDT", "XYZ"}

\* two of the three timestamps fall on the same date
OracleTimestamps == {1, 2, 3}

\* the price service can answer two requests with different prices
OracleOutcomes == ServiceOutcomes \cup {[kind |-> "price", usd |-> 98000000]}

\* transactions of timestamp 1 with a top-level amount and at most one TRC20
\* transfer
OracleTransactions ==
    {t \in RawTransactions :
        /\ t.timestamp = 1
        /\ t.amount # Absent
        /\ t.value = Absent /\ t.contractData = Absent
        /\ t.tokenTransferInfo = Absent
        /\ t.trc20TransferInfo # Absent => Len(t.trc20TransferInfo[1]) <= 1}

OracleInit ==
    /\ price_cache = EmptyCache
    /\ tx \in OracleTransactions
    /\ results = <<>>
    /\ npc = "idle"
    /\ conv_amount = <<>>
    /\ conv_args = NoArgs
    /\ conv_result = NoResult
    /\ cpc = "idle"
    /\ service_log = <<>>
    /\ price_call = NoCall
    /\ price_calls = 0

\* the call with its arguments, what the service did and what came back
PriceCall(symbol, timestamp, outcome, r) ==
    [op |-> "get", token_symbol |-> symbol, timestamp |-> timestamp, outcome |-> outcome,
     price |-> r.price, requested |-> r.requested]

\* one call of get_historical_price
GetHistoricalPrice ==
    /\ price_calls < MaxCalls
    /\ \E symbol \in OracleSymbols, timestamp \in OracleTimestamps, outcome \in OracleOutcomes :
          /\ price_call' = PriceCall(symbol, timestamp, outcome,
                                     get_historical_price(price_cache, symbol, timestamp, outcome))
          /\ price_cache' = get_historical_price(price_cache, symbol, timestamp, outcome).cache
          /\ service_log' = <<outcome>>
    /\ price_calls' = price_calls + 1
    /\ UNCHANGED <<tx, results, npc, conv_amount, conv_args, conv_result, cpc>>
    /\ UNCHANGED <<reconVars, ledgerVars, sideVars>>

\* one call of clear_cache
ClearCache ==
    /\ price_calls < MaxCalls
    /\ price_cache' = clear_cache(price_cache)
    /\ price_call' = [op |-> "clear"]
    /\ service_log' = <<>>
    /\ price_calls' = price_calls + 1
    /\ UNCHANGED <<tx, results, npc, conv_amount, conv_args, conv_result, cpc>>
    /\ UNCHANGED <<reconVars, ledgerVars, sideVars>>

----------------------------------------------------------------------------
\* Inputs and steps of the ledger side

LedgerAmounts ==
    {<<>>,
     <<"1", "2", "3", ".", "4", "5">>,
     <<"(", "1", "2", "3", ".", "4", "5", ")">>,
     <<"$", "1", ",", "2", "3", "4", ".", "5", "0">>,
     <<"-", "5">>,
     <<"(", "-", "5", ")">>,
     <<"(", "$", "7", ")", " ">>,
     <<"(", "(", "8", ")", ")">>,
     <<"0">>,
     <<"(", ")">>,
     <<"a", "b", "c">>,
     <<"(", "a", "b", "c", ")">>,
     <<"1", "(", "2", ")">>,
     <<")", "3", "(">>}

Categories ==
    {"MARKETING - REIMBURSEMENT", "EXPENSE - REIMBURSEMENT", "REFUND", "CHARGEBACK",
     "WITHDRAWAL", "SALARY", "refund", ""}

NoFloat == [ok |-> FALSE]

LedgerIdle ==
    /\ amount_str = <<>>
    /\ category = ""
    /\ processed_amount = NoFloat
    /\ lpc = "idle"

LedgerInit ==
    /\ amount_str \in LedgerAmounts
    /\ category \in Categories
    /\ processed_amount = NoFloat
    /\ lpc = "idle"

\* one call of _extract_amount_with_category_logic
ExtractAmount ==
    /\ lpc = "idle"
    /\ processed_amount' = _extract_amount_with_category_logic(amount_str, category)
    /\ lpc' = "done"
    /\ UNCHANGED <<amount_str, category>>
    /\ UNCHANGED <<reconVars, chainVars, sideVars>>

----------------------------------------------------------------------------
\* Inputs and steps of the reading of the two sheets

MaxRows == 1

SheetAmounts == {1, 15000}

MsFormHeaders == {<<"trxhash", "amount">>, <<"date", "usdt amount">>, <<"txn hash">>}

TronscanHeaders == {<<"hash", "wallet", "amt">>, <<"txid", "wallet", "amt">>, <<"hash", "amt">>}

\* what a data row says: the hash cell and the amount cell
SheetRecords ==
    {[hash |-> h, amount |-> a] : h \in Hashes, a \in SheetAmounts}
    \cup {[hash |-> EmptyCell, amount |-> 1], [hash |-> TotalCell, amount |-> 15000]}

\* the cell of a row under a header
CellOf(header, rec) ==
    IF header \in {"trxhash", "txn hash", "hash", "txid"} THEN rec.hash
    ELSE IF header \in {"amount", "usdt amount", "amt"} THEN rec.amount
    ELSE 0

NoSheet == [header |-> <<>>, rows |-> <<>>]

\* what get_all_values can return for a sheet with one of the headers
Sheets(headers) ==
    {NoSheet}
    \cup {[header |-> h,
           rows |-> [i \in 1..Len(recs) |-> [c \in 1..Len(h) |-> CellOf(h[c], recs[i])]]] :
          h \in headers, recs \in SeqsUpTo(SheetRecords, MaxRows)}

\* main before the sheets are read
ReadInit ==
    /\ ms_form_data = <<>>
    /\ tronscan_data = <<>>
    /\ tolerance \in Tolerances
    /\ exceptions = <<>>
    /\ rows = <<>>
    /\ type_counts = <<>>
    /\ total_diff = 0
    /\ match_rate = NoRate
    /\ pc = "start"
    /\ prev_rows = <<>>
    /\ runs = 1
    /\ read_errors = {}

\* lines 384-385 of main: both sheets are read
ReadSheets ==
    /\ pc = "start"
    /\ \E ms_form_sheet \in Sheets(MsFormHeaders), tronscan_sheet \in Sheets(TronscanHeaders) :
          /\ ms_form_data' = read_ms_form_data(ms_form_sheet).data
          /\ tronscan_data' = read_tronscan_data(tronscan_sheet).data
          /\ read_errors' = read_ms_form_data(ms_form_sheet).errors
                               \cup read_tronscan_data(tronscan_sheet).errors
    /\ pc' = "read"
    /\ UNCHANGED <<tolerance, exceptions, rows, type_counts, total_diff, match_rate,
                   prev_rows, runs>>
    /\ UNCHANGED <<chainVars, ledgerVars, hashVars, pageVars, usdtVars, moreVars>>

----------------------------------------------------------------------------
\* Inputs of the two amount conversions side by side

\* raw amounts of the chain: empty, zero, a number, text, a number with a
\* thousands separator, a number with a currency sign
AmountRaws ==
    {<<>>, <<"0">>, Str1500000, StrAbc, <<"1", ",", "5", "0", "0">>, <<"$", "5">>}

AmountSymbols == {"USDT", "BTT", "XYZ"}

AmountDecimals == {0, 6, 18}

\* amounts typed into the form: empty, zero, text, text in parentheses, a
\* number with separators, a lone currency sign
AmountTexts ==
    {<<>>, <<"0">>, StrAbc, <<"(", "a", "b", "c", ")">>, <<"$", "1", ",", "5", "0", "0">>,
     <<"$">>}

AmountCategories == {"REFUND", "SALARY"}

AmountInit ==
    /\ price_cache = EmptyCache
    /\ tx = NoTx
    /\ results = <<>>
    /\ npc = "idle"
    /\ conv_amount = <<>>
    /\ \E raw \in AmountRaws, symbol \in AmountSymbols, d \in AmountDecimals, ts \in Timestamps :
          conv_args = [raw_amount |-> raw, token_symbol |-> symbol, decimals |-> d,
                       timestamp |-> ts]
    /\ conv_result = NoResult
    /\ cpc = "idle"
    /\ service_log = <<>>
    /\ price_call = NoCall
    /\ price_calls = 0
    /\ amount_str \in AmountTexts
    /\ category \in AmountCategories
    /\ processed_amount = NoFloat
    /\ lpc = "idle"

\* conversions of 1500000 and 2E18 raw units of every token of the mapping
\* and of an unknown token
FallbackInit ==
    /\ price_cache = EmptyCache
    /\ tx = NoTx
    /\ results = <<>>
    /\ npc = "idle"
    /\ conv_amount = <<>>
    /\ \E raw \in {Str1500000, Str2E18}, symbol \in token_mapping \cup {"XYZ"},
          d \in AmountDecimals, ts \in Timestamps :
          conv_args = [raw_amount |-> raw, token_symbol |-> symbol, decimals |-> d,
                       timestamp |-> ts]
    /\ conv_result = NoResult
    /\ cpc = "idle"
    /\ service_log = <<>>
    /\ price_call = NoCall
    /\ price_calls = 0

----------------------------------------------------------------------------
\* TronScanAPI.get_account_transactions.  The list all_transactions is
\* modelled by its length, which is all the loop looks at.

\* variant: the loop stops at twice the number of records
RecordCap_double == 2 * 10000

\* the number of records beyond which the loop stops
RecordCap == 10000

\* the page sizes asked for; 200 is the default
Limits == {200, 5000}

\* most records _normalize_transaction returns for one transaction
MaxPerTx == 2

\* what one request to the feed can bring: an exception of the request, a
\* response without 'data', an empty page, a page of n transactions each
\* normalized into per_tx records, or such a page whose transaction number
\* failed + 1 makes _normalize_transaction raise
FeedPages(page_limit) ==
    {[kind |-> "error", n |-> 0, per_tx |-> 1, failed |-> 0],
     [kind |-> "no_data", n |-> 0, per_tx |-> 1, failed |-> 0],
     [kind |-> "page", n |-> 0, per_tx |-> 1, failed |-> 0]}
    \cup {[kind |-> "page", n |-> n, per_tx |-> k, failed |-> n] :
             n \in {1, page_limit - 1, page_limit}, k \in 1..MaxPerTx}
    \cup {[kind |-> "bad_tx", n |-> page_limit, per_tx |-> k, failed |-> f] :
             k \in 1..MaxPerTx, f \in {0, 1}}

\* one pass of the while loop for a page
PageStep(page, page_start, page_limit, count) ==
    IF page.kind \in {"error", "no_data"}
    THEN [start |-> page_start, count |-> count, ppc |-> "returned",
          log |-> IF page.kind = "error" THEN "Error fetching transactions" ELSE ""]
    ELSE IF page.n = 0
    THEN [start |-> page_start, count |-> count, ppc |-> "returned", log |-> ""]
    ELSE IF page.kind = "bad_tx"
    THEN [start |-> page_start, count |-> count + page.failed * page.per_tx,
          ppc |-> "returned", log |-> "Error fetching transactions"]
    ELSE IF page.n < page_limit
    THEN [start |-> page_start, count |-> count + page.n * page.per_tx, ppc |-> "returned",
          log |-> ""]
    ELSE IF count + page.n * page.per_tx > RecordCap
    THEN [start |-> page_start + page_limit, count |-> count + page.n * page.per_tx,
          ppc |-> "returned", log |-> "Reached limit"]
    ELSE [start |-> page_start + page_limit, count |-> count + page.n * page.per_tx,
          ppc |-> "loop", log |-> ""]

PageIdle ==
    /\ start = 0
    /\ limit = 0
    /\ all_transactions = 0
    /\ page_requests = 0
    /\ page_log = ""
    /\ ppc = "idle"

\* lines 141-142
PageInit ==
    /\ start = 0
    /\ limit \in Limits
    /\ all_transactions = 0
    /\ page_requests = 0
    /\ page_log = ""
    /\ ppc = "loop"

\* one pass of the while loop: the request and what follows it
FetchPage ==
    /\ ppc = "loop"
    /\ \E page \in FeedPages(limit) :
          /\ start' = PageStep(page, start, limit, all_transactions).start
          /\ all_transactions' = PageStep(page, start, limit, all_transactions).count
          /\ ppc' = PageStep(page, start, limit, all_transactions).ppc
          /\ page_log' = PageStep(page, start, limit, all_transactions).log
    /\ page_requests' = page_requests + 1
    /\ UNCHANGED limit
    /\ UNCHANGED <<reconVars, chainVars, ledgerVars, hashVars, read_errors, usdtVars, moreVars>>

----------------------------------------------------------------------------
\* USDTTransactionFetcher.get_usdt_transactions, the body of the for loop
\* over the transactions of a page (optimized_usdt_fetcher.py)

\* variant: the addresses are compared as they are written
Lower_as_written(address) == address

\* str.lower() on the addresses of the model
Lower(address) ==
    CASE address = "TWalletA" -> "twalleta"
      [] address = "TWALLETA" -> "twalleta"
      [] address = "TOther" -> "tother"
      [] OTHER -> address

\* float(...) of a Decimal of at most 15 significant digits, written with
\* the digits of its repr: no trailing zero in the coefficient, 0.0 for zero
FloatOf(x) ==
    IF AllZero(x.int) THEN FloatZero
    ELSE [ok |-> TRUE, sign |-> x.sign,
          int |-> SubSeq(x.int, 1, Len(x.int) - TrailingZeros(x.int)),
          exp |-> x.exp + TrailingZeros(x.int)]

\* -x of a float
Negated(x) == IF AllZero(x.int) THEN x ELSE [x EXCEPT !.sign = 1 - @]

\* lines 163-170 on the parsed value: 0 when Decimal raises
UsdtAmountOf(raw_decimal, decimals) ==
    IF ~raw_decimal.ok THEN FloatZero
    ELSE FloatOf(DecimalDivPow10(raw_decimal, decimals))

\* lines 153-170: value_str defaults to '0', decimals to 6
UsdtAmount(t) ==
    IF t.value = Absent \/ t.value[1] = <<>> \/ t.value[1] = <<"0">> THEN FloatZero
    ELSE UsdtAmountOf(ParseDecimal(t.value[1]),
                      IF t.decimals = Absent THEN 6 ELSE t.decimals[1])

\* lines 193-203: the record appended
UsdtRecord(wallet, t, direction, signed_amount, usdt_amount) ==
    Present([wallet |-> wallet, amount_usdt |-> signed_amount, amount_abs |-> usdt_amount,
             direction |-> direction, from_address |-> t.from, to_address |-> t.to])

\* lines 176-187 for a transaction of amount usdt_amount
DirectedRecord(wallet, t, usdt_amount) ==
    IF Lower(t.from) = Lower(wallet)
    THEN UsdtRecord(wallet, t, "OUT", Negated(usdt_amount), usdt_amount)
    ELSE IF Lower(t.to) = Lower(wallet)
    THEN UsdtRecord(wallet, t, "IN", usdt_amount, usdt_amount)
    ELSE Absent

\* variant: a transfer of amount zero is kept
ProcessUsdtTransaction_keep_zero(wallet, t) ==
    IF Upper(t.symbol) # "USDT" THEN Absent
    ELSE DirectedRecord(wallet, t, UsdtAmount(t))

\* one pass of the for loop: the record appended, Absent after a continue
ProcessUsdtTransaction(wallet, t) ==
    IF Upper(t.symbol) # "USDT" THEN Absent
    ELSE IF AllZero(UsdtAmount(t).int) THEN Absent
    ELSE DirectedRecord(wallet, t, UsdtAmount(t))

Addresses == {"TWalletA", "twalleta", "TOther"}

Wallets == {"TWalletA", "TWALLETA"}

\* transactions of the TRC20 endpoint: value 1.5 USDT, -2.5 USDT, zero, text
\* or missing; decimals 6, 18 or missing
UsdtTransactions ==
    [from : Addresses,
     to : Addresses,
     value : {Absent, Present(<<"0">>), Present(Str1500000), Present(StrAbc),
              Present(<<"-", "2", "5", "0", "0", "0", "0", "0">>)},
     decimals : {Absent, Present(6), Present(18)},
     symbol : {"usdt", "USDT", "BTT"}]

NoUsdtTx == [symbol |-> ""]

UsdtIdle ==
    /\ wallet_address = ""
    /\ usdt_tx = NoUsdtTx
    /\ usdt_record = Absent
    /\ upc = "idle"

UsdtInit ==
    /\ wallet_address \in Wallets
    /\ usdt_tx \in UsdtTransactions
    /\ usdt_record = Absent
    /\ upc = "idle"

\* one pass of the for loop of get_usdt_transactions
ProcessTransaction ==
    /\ upc = "idle"
    /\ usdt_record' = ProcessUsdtTransaction(wallet_address, usdt_tx)
    /\ upc' = "done"
    /\ UNCHANGED <<wallet_address, usdt_tx>>
    /\ UNCHANGED <<reconVars, chainVars, ledgerVars, hashVars, read_errors, pageVars, moreVars>>

----------------------------------------------------------------------------
\* USDTTransactionFetcher.get_usdt_transactions, the while loop over the
\* pages.  The records of a page are left out: the loop does not look at them.

\* limit of line 109
UsdtLimit == 200

\* the requests are counted up to this number and no further
MaxCounted == 6

\* what one request can bring: an exception, a response without 'data', or
\* a page of n transactions whose meta has a fingerprint or has none
CursorPages ==
    {[kind |-> "error", n |-> 0, fingerprint |-> Absent],
     [kind |-> "no_data", n |-> 0, fingerprint |-> Absent]}
    \cup {[kind |-> "page", n |-> n, fingerprint |-> f] :
             n \in {0, 1, UsdtLimit}, f \in {Absent, Present("fpA"), Present("fpB")}}

\* one pass of the while loop for a response; cursor is the fingerprint
\* before the pass
CursorStep(page, cursor) ==
    IF page.kind \in {"error", "no_data"} \/ page.n = 0
    THEN [fingerprint |-> cursor, fpc |-> "returned"]
    ELSE IF page.fingerprint # Absent
    THEN IF page.fingerprint = cursor
         THEN [fingerprint |-> cursor, fpc |-> "returned"]
         ELSE [fingerprint |-> page.fingerprint, fpc |-> "loop"]
    ELSE [fingerprint |-> cursor, fpc |-> "returned"]

NoPage == [kind |-> "none"]

CursorIdle ==
    /\ fingerprint = Absent
    /\ usdt_page = NoPage
    /\ usdt_requests = 0
    /\ fpc = "idle"

\* lines 107-109
CursorInit ==
    /\ fingerprint = Absent
    /\ usdt_page = NoPage
    /\ usdt_requests = 0
    /\ fpc = "loop"

\* one pass of the while loop: the request and what follows it
FetchUsdtPage ==
    /\ fpc = "loop"
    /\ \E page \in CursorPages :
          /\ usdt_page' = page
          /\ fingerprint' = CursorStep(page, fingerprint).fingerprint
          /\ fpc' = CursorStep(page, fingerprint).fpc
    /\ usdt_requests' = IF usdt_requests < MaxCounted THEN usdt_requests + 1 ELSE usdt_requests
    /\ UNCHANGED <<reconVars, chainVars, ledgerVars, hashVars, read_errors, pageVars, usdtVars>>
    /\ UNCHANGED <<multiVars, batchVars, sheetVars>>

----------------------------------------------------------------------------
\* TronScanAPI.get_transactions_for_multiple_addresses.  The list
\* all_transactions is modelled by its runs: one run per address processed,
\* of as many records as get_account_transactions returned for it.

MaxAddresses == 2

\* most full pages the feed has for one address
MaxPages == 2

\* limit of get_account_transactions when the caller gives none
DefaultLimit == 200

\* the pages after which the loop of get_account_transactions goes on, and
\* those at which it stops
FullPages == {p \in FeedPages(DefaultLimit) : p.kind = "page" /\ p.n = DefaultLimit /\ p.per_tx = 1}

LastPages ==
    {p \in FeedPages(DefaultLimit) :
        /\ p.per_tx = 1
        /\ \/ p.kind \in {"error", "no_data"}
           \/ p.kind = "page" /\ p.n \in {0, 1}
           \/ p.kind = "bad_tx" /\ p.failed = 1}

\* what the feed answers to the requests for one address, up to the answer
\* that ends the paging
FeedScripts == {Append(full, last) : full \in SeqsUpTo(FullPages, MaxPages), last \in LastPages}

\* variant: an exception of a request is not caught and the records of the
\* earlier pages are lost with it
RECURSIVE get_account_transactions_raising(_, _, _, _)
get_account_transactions_raising(script, i, page_start, count) ==
    IF i > Len(script) THEN [raised |-> FALSE, count |-> count]
    ELSE IF script[i].kind \in {"error", "bad_tx"} THEN [raised |-> TRUE, count |-> 0]
    ELSE IF PageStep(script[i], page_start, DefaultLimit, count).ppc = "returned"
    THEN [raised |-> FALSE, count |-> PageStep(script[i], page_start, DefaultLimit, count).count]
    ELSE get_account_transactions_raising(script, i + 1,
             PageStep(script[i], page_start, DefaultLimit, count).start,
             PageStep(script[i], page_start, DefaultLimit, count).count)

\* TronScanAPI.get_account_transactions with the default limit, from the
\* i-th answer of the feed on: the number of records returned; the except of
\* line 179 lets no exception out
RECURSIVE get_account_transactions(_, _, _, _)
get_account_transactions(script, i, page_start, count) ==
    IF i > Len(script) THEN [raised |-> FALSE, count |-> count]
    ELSE IF PageStep(script[i], page_start, DefaultLimit, count).ppc = "returned"
    THEN [raised |-> FALSE, count |-> PageStep(script[i], page_start, DefaultLimit, count).count]
    ELSE get_account_transactions(script, i + 1,
             PageStep(script[i], page_start, DefaultLimit, count).start,
             PageStep(script[i], page_start, DefaultLimit, count).count)

\* lines 287-294: the body of the for loop for one address
ExtendTransactions(all, errors, address, transactions) ==
    IF transactions.raised
    THEN [all |-> all, errors |-> errors \cup {address}]
    ELSE [all |-> Append(all, [address |-> address, records |-> transactions.count]),
          errors |-> errors]

MultiAddresses == {"TA", "TB"}

MultiIdle ==
    /\ addresses = <<>>
    /\ feeds = <<>>
    /\ address_index = 0
    /\ multi_transactions = <<>>
    /\ multi_errors = {}
    /\ mpc = "idle"

\* lines 279-284
MultiInit ==
    /\ addresses \in SeqsUpTo(MultiAddresses, MaxAddresses)
    /\ feeds \in [1..Len(addresses) -> FeedScripts]
    /\ address_index = 1
    /\ multi_transactions = <<>>
    /\ multi_errors = {}
    /\ mpc = "loop"

\* one pass of the for loop
ProcessAddress ==
    /\ mpc = "loop"
    /\ address_index <= Len(addresses)
    /\ multi_transactions' =
          ExtendTransactions(multi_transactions, multi_errors, addresses[address_index],
              get_account_transactions(feeds[address_index], 1, 0, 0)).all
    /\ multi_errors' =
          ExtendTransactions(multi_transactions, multi_errors, addresses[address_index],
              get_account_transactions(feeds[address_index], 1, 0, 0)).errors
    /\ address_index' = address_index + 1
    /\ UNCHANGED <<addresses, feeds, mpc>>
    /\ UNCHANGED <<reconVars, chainVars, ledgerVars, hashVars, read_errors, pageVars, usdtVars>>
    /\ UNCHANGED <<cursorVars, batchVars, sheetVars>>

\* lines 296-297: the end of the list
ReturnTransactions ==
    /\ mpc = "loop"
    /\ address_index > Len(addresses)
    /\ mpc' = "returned"
    /\ UNCHANGED <<addresses, feeds, address_index, multi_transactions, multi_errors>>
    /\ UNCHANGED <<reconVars, chainVars, ledgerVars, hashVars, read_errors, pageVars, usdtVars>>
    /\ UNCHANGED <<cursorVars, batchVars, sheetVars>>

----------------------------------------------------------------------------
\* main of 01_sync_wallet.py and main of 02_sync_ms_form.py on the files they
\* share: current_batch.txt and the workbooks of processed/.  A batch id is
\* the number of the run that generated it (the clock only moves forward).

MaxSyncRuns == 4

\* current_batch.txt does not exist
NoBatch == 0

\* what happens to a step of main of 01_sync_wallet
WalletOutcomes == {"ok", "raises"}

\* what read_wallet_data and read_form_data can come back with
ReadOutcomes == {"data", "empty", "raises"}

BatchIdle ==
    /\ current_batch = NoBatch
    /\ processed = <<>>
    /\ batch_id = NoBatch
    /\ sync_runs = 0
    /\ wpc = "idle"
    /\ form_log = ""

\* the working directory before the first run: no batch file, no workbook
BatchInit ==
    /\ current_batch = NoBatch
    /\ processed = <<>>
    /\ batch_id = NoBatch
    /\ sync_runs = 0
    /\ wpc = "ended"
    /\ form_log = ""

\* 01_sync_wallet.py lines 248-255: WalletSyncer(), create_processed_folder,
\* generate_batch_id, set_current_batch
SetCurrentBatch ==
    /\ wpc = "ended"
    /\ sync_runs < MaxSyncRuns
    /\ sync_runs' = sync_runs + 1
    /\ \E outcome \in WalletOutcomes :
          IF outcome = "ok"
          THEN /\ batch_id' = sync_runs + 1
               /\ current_batch' = sync_runs + 1
               /\ wpc' = "batch_set"
          ELSE /\ wpc' = "ended"
               /\ UNCHANGED <<batch_id, current_batch>>
    /\ UNCHANGED <<processed, form_log>>
    /\ UNCHANGED <<reconVars, chainVars, ledgerVars, hashVars, read_errors, pageVars, usdtVars>>
    /\ UNCHANGED <<cursorVars, multiVars, sheetVars>>

\* 01_sync_wallet.py lines 257-266: read_wallet_data and the exit without data
ReadWalletData ==
    /\ wpc = "batch_set"
    /\ \E outcome \in ReadOutcomes :
          wpc' = IF outcome = "data" THEN "have_data" ELSE "ended"
    /\ UNCHANGED <<current_batch, processed, batch_id, sync_runs, form_log>>
    /\ UNCHANGED <<reconVars, chainVars, ledgerVars, hashVars, read_errors, pageVars, usdtVars>>
    /\ UNCHANGED <<cursorVars, multiVars, sheetVars>>

\* the workbooks with the sheets stored under the batch id
Saved(books, batch, sheets) ==
    [b \in DOMAIN books \cup {batch} |-> IF b = batch THEN sheets ELSE books[b]]

\* 01_sync_wallet.py lines 268-275: create_excel_file, populate_wallet_tab,
\* save_excel_file
SaveExcelFile ==
    /\ wpc = "have_data"
    /\ \E outcome \in WalletOutcomes :
          processed' = IF outcome = "ok" THEN Saved(processed, batch_id, {"WALLET"})
                       ELSE processed
    /\ wpc' = "ended"
    /\ UNCHANGED <<current_batch, batch_id, sync_runs, form_log>>
    /\ UNCHANGED <<reconVars, chainVars, ledgerVars, hashVars, read_errors, pageVars, usdtVars>>
    /\ UNCHANGED <<cursorVars, multiVars, sheetVars>>

\* main of 02_sync_ms_form.py from the state of the files: the error it
\* stops with and the workbooks afterwards
SyncMsFormMain(batch, books, outcome) ==
    IF batch = NoBatch
    THEN [log |-> "No current_batch.txt found", processed |-> books]
    ELSE IF batch \notin DOMAIN books
    THEN [log |-> "Excel file not found", processed |-> books]
    ELSE IF outcome = "data"
    THEN [log |-> "", processed |-> Saved(books, batch, (books[batch] \ {"MS_FORM"}) \cup {"MS_FORM"})]
    ELSE [log |-> IF outcome = "empty" THEN "No valid form data found"
                  ELSE "02_sync_ms_form.py failed",
          processed |-> books]

\* one run of 02_sync_ms_form.py between two runs of 01_sync_wallet.py
SyncMsForm ==
    /\ wpc = "ended"
    /\ sync_runs < MaxSyncRuns
    /\ sync_runs' = sync_runs + 1
    /\ \E outcome \in ReadOutcomes :
          /\ form_log' = SyncMsFormMain(current_batch, processed, outcome).log
          /\ processed' = SyncMsFormMain(current_batch, processed, outcome).processed
    /\ UNCHANGED <<current_batch, batch_id, wpc>>
    /\ UNCHANGED <<reconVars, chainVars, ledgerVars, hashVars, read_errors, pageVars, usdtVars>>
    /\ UNCHANGED <<cursorVars, multiVars, sheetVars>>

----------------------------------------------------------------------------
\* Inputs and steps of the reading of one sheet, with the hash cells as
\* they are typed

MaxSheetRows == 3

\* hash cells as typed: empty, blank, two hashes, one of them also with a
\* blank in front, and the total row in two letter cases
HashCells == {"", " ", "h1", " h1", "h2", "TOTAL", "total "}

\* str.strip() on the cells of the model
Strip(text) ==
    CASE text = " " -> ""
      [] text = " h1" -> "h1"
      [] text = "total " -> "total"
      [] OTHER -> text

\* the stripped text of a hash cell as a cell of the sheet model
CellNumber(text) ==
    CASE text = "" -> EmptyCell
      [] text = "h1" -> 1
      [] text = "h2" -> 2
      [] text = "TOTAL" -> TotalCell
      [] text = "total" -> TotalCell - 1

\* what the rows of a sheet say
TypedRecords == {[hash |-> h, amount |-> a] : h \in HashCells, a \in SheetAmounts}

\* all_values with every cell stripped
StrippedSheet(values) ==
    [header |-> values.header,
     rows |-> [i \in 1..Len(values.records) |->
                  [c \in 1..Len(values.header) |->
                      CellOf(values.header[c],
                             [hash |-> CellNumber(Strip(values.records[i].hash)),
                              amount |-> values.records[i].amount])]]]

\* the row_number entries of the dict a reader returns
RowNumbersOf(sheet, hash_col, skipped) ==
    RowNumbers(sheet.rows, KeptRows(sheet.rows, hash_col, skipped), hash_col)

SheetIdle ==
    /\ sheet_name = ""
    /\ all_values = NoSheet
    /\ sheet_data = <<>>
    /\ sheet_row_numbers = <<>>
    /\ sheet_errors = {}
    /\ spc = "idle"

SheetInit ==
    /\ sheet_name \in {"MS_FORM", "TRONSCAN"}
    /\ \E h \in (IF sheet_name = "MS_FORM" THEN MsFormHeaders ELSE TronscanHeaders),
          recs \in SeqsUpTo(TypedRecords, MaxSheetRows) :
          all_values = [header |-> h, records |-> recs]
    /\ sheet_data = <<>>
    /\ sheet_row_numbers = <<>>
    /\ sheet_errors = {}
    /\ spc = "idle"

\* one call of read_ms_form_data
ReadMsFormData ==
    /\ spc = "idle"
    /\ sheet_name = "MS_FORM"
    /\ sheet_data' = read_ms_form_data(StrippedSheet(all_values)).data
    /\ sheet_errors' = read_ms_form_data(StrippedSheet(all_values)).errors
    /\ sheet_row_numbers' =
          IF read_ms_form_data(StrippedSheet(all_values)).errors # {} THEN <<>>
          ELSE RowNumbersOf(StrippedSheet(all_values),
                            LastColumn(all_values.header, ContainsHash), {})
    /\ spc' = "done"
    /\ UNCHANGED <<sheet_name, all_values>>
    /\ UNCHANGED <<reconVars, chainVars, ledgerVars, hashVars, read_errors, pageVars, usdtVars>>
    /\ UNCHANGED <<cursorVars, multiVars, batchVars>>

\* one call of read_tronscan_data
ReadTronscanData ==
    /\ spc = "idle"
    /\ sheet_name = "TRONSCAN"
    /\ sheet_data' = read_tronscan_data(StrippedSheet(all_values)).data
    /\ sheet_errors' = read_tronscan_data(StrippedSheet(all_values)).errors
    /\ sheet_row_numbers' =
          IF read_tronscan_data(StrippedSheet(all_values)).errors # {} THEN <<>>
          ELSE RowNumbersOf(StrippedSheet(all_values),
                            LastColumn(all_values.header, {"hash"}), TotalCells)
    /\ spc' = "done"
    /\ UNCHANGED <<sheet_name, all_values>>
    /\ UNCHANGED <<reconVars, chainVars, ledgerVars, hashVars, read_errors, pageVars, usdtVars>>
    /\ UNCHANGED <<cursorVars, multiVars, batchVars>>

----------------------------------------------------------------------------
\* Inputs and steps of the hash extraction

\* 64 hexadecimal characters of both cases
HashText == [i \in 1..HashLength |->
                <<"0", "a", "B", "9", "c", "D", "e", "F", "1", "7", "A", "b", "C", "d", "E", "f">>[(i % 16) + 1]]

NotAHash == <<"n", "o", "t", " ", "a", " ", "h", "a", "s", "h">>

HashBodies ==
    {HashText,
     SubSeq(HashText, 1, HashLength - 1),
     HashText \o <<"5">>,
     [HashText EXCEPT ![HashLength \div 2] = "g"],
     NotAHash,
     <<>>}

Https == <<"h", "t", "t", "p", "s", ":", "/", "/">>

\* what stands before the hash: nothing, a URL of another host, a URL of
\* tronscan.org, the bare host name
HashPrefixes ==
    {<<>>,
     Https \o <<"x">> \o TransactionPath,
     Https \o TronscanOrg \o <<"/", "#">> \o TransactionPath,
     TronscanOrg \o <<" ">>}

HashSuffixes == {<<>>, <<"\n">>, <<"/", "x">>}

HashInputs == {p \o b \o x : p \in HashPrefixes, b \in HashBodies, x \in HashSuffixes}

HashIdle ==
    /\ raw_hash = <<>>
    /\ clean_txn_hash = <<>>
    /\ hpc = "idle"

HashInit ==
    /\ raw_hash \in HashInputs
    /\ clean_txn_hash = <<>>
    /\ hpc = "idle"

\* one call of _extract_hash_from_url
ExtractHash ==
    /\ hpc = "idle"
    /\ clean_txn_hash' = _extract_hash_from_url(raw_hash)
    /\ hpc' = "done"
    /\ UNCHANGED raw_hash
    /\ UNCHANGED <<reconVars, chainVars, ledgerVars, read_errors, pageVars, usdtVars, moreVars>>

----------------------------------------------------------------------------
\* Inputs of the two treatments of zero amounts side by side

MaxZeroTransfers == 2

\* TRC20 transfers whose amount_str is missing, empty, '0' or 1500000
ZeroTransfers ==
    {[symbol |-> "USDT", contract_address |-> "TR7", amount_str |-> a,
      decimals |-> Present(6), from_address |-> "TA", to_address |-> "TB"] :
        a \in {Absent, Present(<<>>), Present(<<"0">>), Present(Str1500000)}}

\* transactions with such transfers, or with none and a top-level amount
\* that is missing, empty or '0'
ZeroTransactions ==
    [trc20TransferInfo : {Absent} \cup {Present(l) : l \in SeqsUpTo(ZeroTransfers, MaxZeroTransfers)},
     tokenTransferInfo : {Absent},
     timestamp : {0},
     amount : {Absent, Present(<<>>), Present(<<"0">>)},
     value : {Absent},
     contractData : {Absent},
     ownerAddress : {"TA"},
     toAddress : {"TB"}]

ZeroInit ==
    /\ price_cache = EmptyCache
    /\ tx \in ZeroTransactions
    /\ results = <<>>
    /\ npc = "idle"
    /\ conv_amount = <<>>
    /\ conv_args = NoArgs
    /\ conv_result = NoResult
    /\ cpc = "idle"
    /\ service_log = <<>>
    /\ price_call = NoCall
    /\ price_calls = 0
    /\ wallet_address = "TWalletA"
    /\ usdt_tx \in {t \in UsdtTransactions :
                        t.from = "TOther" /\ t.to = "twalleta" /\ t.symbol = "USDT"}
    /\ usdt_record = Absent
    /\ upc = "idle"

MoreIdle == CursorIdle /\ MultiIdle /\ BatchIdle /\ SheetIdle

SideIdle == HashIdle /\ read_errors = {} /\ PageIdle /\ UsdtIdle /\ MoreIdle

----------------------------------------------------------------------------
\* Specifications

\* a run of scripts/exception_analysis.py
Init == ReconInit /\ ChainIdle /\ LedgerIdle /\ SideIdle

Next == ReconNext

Spec == Init /\ [][Next]_vars

\* a call of TronScanAPI._normalize_transaction
NormalizeSpecInit == ReconIdle /\ NormalizeInit /\ LedgerIdle /\ SideIdle

NormalizeNext == NormalizeTransaction

NormalizeSpec == NormalizeSpecInit /\ [][NormalizeNext]_vars

\* a call of TronScanAPI._convert_amount_to_readable
ConvertSpecInit == ReconIdle /\ ConvertInit /\ LedgerIdle /\ SideIdle

ConvertNext == ConvertAmount

ConvertSpec == ConvertSpecInit /\ [][ConvertNext]_vars

\* a call of MSFormSyncer._extract_amount_with_category_logic
LedgerSpecInit == ReconIdle /\ ChainIdle /\ LedgerInit /\ SideIdle

LedgerNext == ExtractAmount

LedgerSpec == LedgerSpecInit /\ [][LedgerNext]_vars

\* a call of MSFormSyncer._extract_hash_from_url
HashSpecInit ==
    /\ ReconIdle /\ ChainIdle /\ LedgerIdle /\ HashInit /\ read_errors = {} /\ PageIdle
    /\ UsdtIdle /\ MoreIdle

HashNext == ExtractHash

HashSpec == HashSpecInit /\ [][HashNext]_vars

\* the price fetcher of a TronScanAPI over several lookups and one
\* normalization
OracleSpecInit == ReconIdle /\ OracleInit /\ LedgerIdle /\ SideIdle

OracleNext == GetHistoricalPrice \/ ClearCache \/ NormalizeTransaction

OracleSpec == OracleSpecInit /\ [][OracleNext]_vars

\* a call of each of the two amount conversions
AmountSpecInit == ReconIdle /\ AmountInit /\ SideIdle

AmountNext == ConvertAmount \/ ExtractAmount

AmountSpec == AmountSpecInit /\ [][AmountNext]_vars

\* a run of scripts/exception_analysis.py from the reading of the sheets
ReadSpecInit ==
    ReadInit /\ ChainIdle /\ LedgerIdle /\ HashIdle /\ PageIdle /\ UsdtIdle /\ MoreIdle

ReadNext == ReadSheets \/ ReconNext

ReadSpec == ReadSpecInit /\ [][ReadNext]_vars

\* a call of TronScanAPI.get_account_transactions; the loop keeps running
\* until it breaks
PageSpecInit ==
    /\ ReconIdle /\ ChainIdle /\ LedgerIdle /\ HashIdle /\ read_errors = {}
    /\ PageInit /\ UsdtIdle /\ MoreIdle

PageNext == FetchPage

PageSpec == PageSpecInit /\ [][PageNext]_vars /\ WF_vars(FetchPage)

\* one transaction of a page of USDTTransactionFetcher.get_usdt_transactions
UsdtSpecInit ==
    /\ ReconIdle /\ ChainIdle /\ LedgerIdle /\ HashIdle /\ read_errors = {}
    /\ PageIdle /\ UsdtInit /\ MoreIdle

UsdtNext == ProcessTransaction

UsdtSpec == UsdtSpecInit /\ [][UsdtNext]_vars

\* a call of TronScanAPI._normalize_transaction on a transaction without
\* structured transfers
NativeSpecInit == ReconIdle /\ NativeInit /\ LedgerIdle /\ SideIdle

NativeNext == NormalizeTransaction

NativeSpec == NativeSpecInit /\ [][NativeNext]_vars

\* a call of _normalize_transaction and a pass of the loop of
\* get_usdt_transactions, each on transfers of zero amount
ZeroSpecInit ==
    /\ ReconIdle /\ LedgerIdle /\ HashIdle /\ read_errors = {} /\ PageIdle /\ MoreIdle
    /\ ZeroInit

ZeroNext == NormalizeTransaction \/ ProcessTransaction

ZeroSpec == ZeroSpecInit /\ [][ZeroNext]_vars

\* a call of USDTTransactionFetcher.get_usdt_transactions; the loop keeps
\* running until it breaks
CursorSpecInit ==
    /\ ReconIdle /\ ChainIdle /\ LedgerIdle /\ HashIdle /\ read_errors = {}
    /\ PageIdle /\ UsdtIdle /\ CursorInit /\ MultiIdle /\ BatchIdle /\ SheetIdle

CursorNext == FetchUsdtPage

CursorSpec == CursorSpecInit /\ [][CursorNext]_vars /\ WF_vars(FetchUsdtPage)

\* a call of TronScanAPI._convert_amount_to_readable for each token
FallbackSpecInit == ReconIdle /\ FallbackInit /\ LedgerIdle /\ SideIdle

FallbackNext == ConvertAmount

FallbackSpec == FallbackSpecInit /\ [][FallbackNext]_vars

\* runs of 01_sync_wallet.py and 02_sync_ms_form.py in one working directory,
\* one after the other
BatchSpecInit ==
    /\ ReconIdle /\ ChainIdle /\ LedgerIdle /\ HashIdle /\ read_errors = {}
    /\ PageIdle /\ UsdtIdle /\ CursorIdle /\ MultiIdle /\ BatchInit /\ SheetIdle

BatchNext == SetCurrentBatch \/ ReadWalletData \/ SaveExcelFile \/ SyncMsForm

BatchSpec == BatchSpecInit /\ [][BatchNext]_vars

\* a call of read_ms_form_data or of read_tronscan_data
SheetSpecInit ==
    /\ ReconIdle /\ ChainIdle /\ LedgerIdle /\ HashIdle /\ read_errors = {}
    /\ PageIdle /\ UsdtIdle /\ CursorIdle /\ MultiIdle /\ BatchIdle /\ SheetInit

SheetNext == ReadMsFormData \/ ReadTronscanData

SheetSpec == SheetSpecInit /\ [][SheetNext]_vars

\* a call of TronScanAPI.get_transactions_for_multiple_addresses
MultiSpecInit ==
    /\ ReconIdle /\ ChainIdle /\ LedgerIdle /\ HashIdle /\ read_errors = {}
    /\ PageIdle /\ UsdtIdle /\ CursorIdle /\ MultiInit /\ BatchIdle /\ SheetIdle

MultiNext == ProcessAddress \/ ReturnTransactions

MultiSpec == MultiSpecInit /\ [][MultiNext]_vars

----------------------------------------------------------------------------
\* Properties of the reconciliation (scripts/exception_analysis.py)

Analyzed == pc \in {"analyzed", "written", "done"}
Written == pc \in {"written", "done"}

UnionOfHashes == DOMAIN ms_form_data \cup DOMAIN tronscan_data

InBoth(h) == h \in DOMAIN ms_form_data /\ h \in DOMAIN tronscan_data
OnlyInForm(h) == h \in DOMAIN ms_form_data /\ h \notin DOMAIN tronscan_data
OnlyInTronscan(h) == h \notin DOMAIN ms_form_data /\ h \in DOMAIN tronscan_data

AmountA(h) == IF h \in DOMAIN ms_form_data THEN ms_form_data[h] ELSE 0
AmountB(h) == IF h \in DOMAIN tronscan_data THEN tronscan_data[h] ELSE 0

\* C1: analyze_exceptions returns exactly one record per hash of
\* keys(A) \cup keys(B): none missing, none twice, none outside the union, and
\* the length of the output is the size of the union.
C1_OneRecordPerHash ==
    Analyzed =>
        /\ {exceptions[i].hash : i \in 1..Len(exceptions)} = UnionOfHashes
        /\ Len(exceptions) = Cardinality(UnionOfHashes)
        /\ \A i, j \in 1..Len(exceptions) :
              exceptions[i].hash = exceptions[j].hash => i = j

\* a hash of both sheets, one only of the form and one only of the chain are
\* all represented
C1_Witness ==
    /\ pc = "analyzed"
    /\ Len(exceptions) = MaxHashes
    /\ \E h \in Hashes : OnlyInTronscan(h)
    /\ \E h \in Hashes : h \in DOMAIN ms_form_data

\* C2: the outcome of a record is determined by presence and tolerance:
\* in both sheets it is MATCHED iff |amountA - amountB| <= tolerance and
\* AMOUNT_DIFFERENT otherwise, only in A it is IN_FORM_NOT_TRONSCAN, only in B
\* it is IN_TRONSCAN_NOT_FORM; there is no other outcome.
C2_OutcomeByPresenceAndTolerance ==
    Analyzed =>
        \A i \in 1..Len(exceptions) :
            LET e == exceptions[i]
                h == e.hash
            IN  /\ e.exception_type \in {"MATCHED", "AMOUNT_DIFFERENT",
                                         "IN_FORM_NOT_TRONSCAN", "IN_TRONSCAN_NOT_FORM"}
                /\ (e.exception_type = "MATCHED") <=>
                       (InBoth(h) /\ Abs(ms_form_data[h] - tronscan_data[h]) <= tolerance)
                /\ (e.exception_type = "AMOUNT_DIFFERENT") <=>
                       (InBoth(h) /\ Abs(ms_form_data[h] - tronscan_data[h]) > tolerance)
                /\ (e.exception_type = "IN_FORM_NOT_TRONSCAN") <=> OnlyInForm(h)
                /\ (e.exception_type = "IN_TRONSCAN_NOT_FORM") <=> OnlyInTronscan(h)

\* a record whose amounts differ by exactly the tolerance is MATCHED
C2_Witness ==
    /\ pc = "analyzed"
    /\ \E i \in 1..Len(exceptions) :
          /\ exceptions[i].exception_type = "MATCHED"
          /\ Abs(exceptions[i].ms_form_amount - exceptions[i].tronscan_amount) = tolerance

\* C3: the severity of a row follows its outcome: MATCHED gives OK;
\* AMOUNT_DIFFERENT gives LOW below 1, MEDIUM from 1 and below 100, HIGH from
\* 100; a hash of one sheet only gives MEDIUM if the amount of that sheet is
\* below 100 and HIGH otherwise; OK goes with MATCHED only.
C3_SeverityFollowsOutcome ==
    Written =>
        \A i \in 1..Len(rows) :
            LET r == rows[i]
            IN  /\ (r.severity = "OK") <=> (r.exception_type = "MATCHED")
                /\ r.exception_type = "AMOUNT_DIFFERENT" =>
                      r.severity = (IF r.difference < 100 THEN "LOW"
                                    ELSE IF r.difference < 10000 THEN "MEDIUM"
                                    ELSE "HIGH")
                /\ r.exception_type = "IN_FORM_NOT_TRONSCAN" =>
                      r.severity = (IF ms_form_data[r.hash] < 10000 THEN "MEDIUM" ELSE "HIGH")
                /\ r.exception_type = "IN_TRONSCAN_NOT_FORM" =>
                      r.severity = (IF tronscan_data[r.hash] < 10000 THEN "MEDIUM" ELSE "HIGH")

\* a report with a LOW row and a HIGH row for a hash of one sheet only
C3_Witness ==
    /\ pc = "written"
    /\ \E i \in 1..Len(rows) : rows[i].severity = "LOW"
    /\ \E i \in 1..Len(rows) :
          rows[i].severity = "HIGH" /\ rows[i].exception_type = "IN_TRONSCAN_NOT_FORM"

\* C4: for every record, difference = |amountA - amountB| with 0 for the
\* amount of a sheet that lacks the hash; difference is never negative.
C4_DifferenceIsAbsolute ==
    Analyzed =>
        \A i \in 1..Len(exceptions) :
            /\ exceptions[i].difference
                 = Abs(AmountA(exceptions[i].hash) - AmountB(exceptions[i].hash))
            /\ exceptions[i].difference >= 0

\* C5: in the report the rows are grouped in the order AMOUNT_DIFFERENT,
\* IN_FORM_NOT_TRONSCAN, IN_TRONSCAN_NOT_FORM, MATCHED, and inside a group the
\* differences do not increase from one row to the next.
GroupRank(t) ==
    CASE t = "AMOUNT_DIFFERENT" -> 1
      [] t = "IN_FORM_NOT_TRONSCAN" -> 2
      [] t = "IN_TRONSCAN_NOT_FORM" -> 3
      [] OTHER -> 4

C5_ReportOrder ==
    Written =>
        \A i, j \in 1..Len(rows) :
            i < j =>
                /\ GroupRank(rows[i].exception_type) <= GroupRank(rows[j].exception_type)
                /\ rows[i].exception_type = rows[j].exception_type =>
                      rows[i].difference >= rows[j].difference

\* the sort moved a record: two rows of one group with different differences
\* whose order in the report is not the order analyze_exceptions produced
C5_Witness ==
    /\ pc = "written"
    /\ \E i, j \in 1..Len(rows) :
          /\ i < j
          /\ rows[i].exception_type = rows[j].exception_type
          /\ rows[i].difference > rows[j].difference

\* C6: two runs on identical sheets and tolerance write the identical
\* sequence of rows, records of equal outcome and equal difference included.
C6_SameReportOnRerun ==
    (Written /\ runs > 1) => rows = prev_rows

\* C7: the summary agrees with the records: the per-outcome counts sum to
\* the number of distinct hashes, the total difference is the sum of the
\* differences of the rows that are not MATCHED, and the match rate (reported
\* as a percentage) is MATCHED rows / distinct hashes, 0 without hashes.
RECURSIVE SumOfCounts(_, _)
SumOfCounts(counts, types) ==
    IF types = {} THEN 0
    ELSE LET t == CHOOSE x \in types : TRUE
         IN  counts[t] + SumOfCounts(counts, types \ {t})

RowOf(h) == CHOOSE i \in 1..Len(rows) : rows[i].hash = h

RECURSIVE SumOfDifferences(_)
SumOfDifferences(hs) ==
    IF hs = {} THEN 0
    ELSE LET h == CHOOSE x \in hs : TRUE
         IN  rows[RowOf(h)].difference + SumOfDifferences(hs \ {h})

MatchedHashes == {h \in UnionOfHashes : rows[RowOf(h)].exception_type = "MATCHED"}

C7_SummaryConsistent ==
    pc = "done" =>
        /\ SumOfCounts(type_counts, DOMAIN type_counts) = Cardinality(UnionOfHashes)
        /\ \A t \in DOMAIN type_counts :
              type_counts[t] = Cardinality({h \in UnionOfHashes :
                                               rows[RowOf(h)].exception_type = t})
        /\ total_diff = SumOfDifferences(UnionOfHashes \ MatchedHashes)
        /\ match_rate[1] * Cardinality(UnionOfHashes)
              = 100 * Cardinality(MatchedHashes) * match_rate[2]
        /\ match_rate[2] > 0

\* a summary over matched and unmatched hashes, one of them in both sheets
C7_Witness ==
    /\ pc = "done"
    /\ MatchedHashes # {}
    /\ UnionOfHashes \ MatchedHashes # {}
    /\ total_diff # 0
    /\ match_rate[1] > 0

----------------------------------------------------------------------------
\* Properties of the chain side (src/tronscan_api.py)

ListLen(opt) == IF opt = Absent THEN 0 ELSE Len(opt[1])

\* number of structured token transfers the raw transaction carries
StructuredTransfers == ListLen(tx.trc20TransferInfo) + ListLen(tx.tokenTransferInfo)

\* C8: _normalize_transaction returns exactly k records for a raw
\* transaction with k >= 1 structured token transfers (TRC20 and TRC10
\* together), none of them a native record, and exactly one native TRX record
\* when it carries none; it never returns zero records.
C8_OneRecordPerTransfer ==
    npc = "done" =>
        /\ Len(results) >= 1
        /\ StructuredTransfers >= 1 =>
              /\ Len(results) = StructuredTransfers
              /\ \A i \in 1..Len(results) : results[i].transfer_type \in {"TRC20", "TRC10"}
        /\ StructuredTransfers = 0 =>
              /\ Len(results) = 1
              /\ results[1].transfer_type = "TRX"
              /\ results[1].token_symbol = "TRX"

\* a transaction with TRC20 and TRC10 transfers and a top-level amount has
\* been normalized into one record per transfer
C8_Witness ==
    /\ npc = "done"
    /\ ListLen(tx.trc20TransferInfo) = MaxTransfers
    /\ ListLen(tx.tokenTransferInfo) >= 1
    /\ tx.amount # Absent
    /\ Len(results) = MaxTransfers + ListLen(tx.tokenTransferInfo)

\* number of digits of an integer without its trailing zeros
SignificantDigits(ds) == Len(ds) - TrailingZeros(ds)

FormattedEqualsAmount ==
    DecimalEqualsInt(ParseDecimal(conv_result.amount_formatted), conv_amount)

\* C9 as stated: for every non-negative integer amount and decimals in
\* {0, 6, 8, 18}, converting str(amount * 10^decimals) with that decimals gives
\* a formatted amount numerically equal to amount.
C9_RoundTripExact ==
    cpc = "done" => FormattedEqualsAmount

\* C9 amended: the round trip is exact for every amount of at most 28
\* significant digits (trailing zeros not counted).
C9_RoundTripExactWithinPrecision ==
    (cpc = "done" /\ SignificantDigits(conv_amount) <= 28) => FormattedEqualsAmount

\* an amount of exactly 28 significant digits scaled by 10^18 came back exact
C9_Witness ==
    /\ cpc = "done"
    /\ SignificantDigits(conv_amount) = 28
    /\ conv_args.decimals = 18
    /\ FormattedEqualsAmount

----------------------------------------------------------------------------
\* Properties of the price lookup (src/historical_price_fetcher.py)

ServiceFailed(outcome) == outcome.kind # "price"

\* C13: a price lookup never propagates a failure: when the request to the
\* price service fails (error, or an answer without a usd price),
\* get_historical_price returns the static fallback price of the symbol, which
\* is 0 for a symbol absent from the table, and _normalize_transaction still
\* returns its records.
C13_FailureGivesFallback ==
    /\ (price_call.op = "get" /\ price_call.requested /\ ServiceFailed(price_call.outcome)) =>
          price_call.price = FetcherFallbackPrice(Upper(price_call.token_symbol))
    /\ (price_call.op = "get" /\ price_call.token_symbol = "XYZ") => price_call.price = 0
    /\ npc = "done" =>
          /\ Len(results) = NumConversions(tx)
          /\ \A i \in 1..Len(results) :
                (/\ price_calls = 0
                 /\ results[i].amount_raw \notin {<<"0">>, StrAbc}
                 /\ results[i].token_symbol \in token_mapping
                 /\ ServiceFailed(service_log[i]))
                => results[i].token_price_usdt = PriceText(FetcherFallbackPrice(results[i].token_symbol))

\* the service failed on the request of a normalization that started with an
\* empty cache, and the record carries the fallback price
C13_Witness ==
    /\ npc = "done"
    /\ price_calls = 0
    /\ service_log[1].kind = "error"
    /\ Len(results) = 1
    /\ results[1].token_symbol = "USDT"
    /\ results[1].token_price_usdt = PriceText(100000000)

CacheKey(call) == <<Upper(call.token_symbol), DayOf(call.timestamp)>>

IsGetStep == price_calls' = price_calls + 1 /\ price_call'.op = "get"
IsClearStep == price_calls' = price_calls + 1 /\ price_call'.op = "clear"

\* C14: a price fetched with success is cached under (upper-cased symbol,
\* date); a later call for a cached key returns the cached price without
\* asking the price service; and no step but clear_cache removes or changes
\* an entry of the cache.
C14_CachePersistence ==
    [][/\ ~IsClearStep =>
             \A k \in DOMAIN price_cache :
                 k \in DOMAIN price_cache' /\ price_cache'[k] = price_cache[k]
       /\ (IsGetStep /\ CacheKey(price_call') \in DOMAIN price_cache) =>
             /\ price_call'.price = price_cache[CacheKey(price_call')]
             /\ ~price_call'.requested
       /\ (IsGetStep /\ price_call'.requested /\ ~ServiceFailed(price_call'.outcome)) =>
             /\ CacheKey(price_call') \in DOMAIN price_cache'
             /\ price_cache'[CacheKey(price_call')] = price_call'.outcome.usd
             /\ price_call'.price = price_call'.outcome.usd
      ]_vars

\* after lookups of other keys a lookup in lower case at the later timestamp
\* of a date returned the price fetched before, while the service would have
\* answered with another price
C14_Witness ==
    /\ price_calls = MaxCalls
    /\ price_call.op = "get"
    /\ price_call.token_symbol = "usdt"
    /\ price_call.timestamp = 3
    /\ ~price_call.requested
    /\ price_call.price = 98000000
    /\ price_call.outcome.kind = "price" /\ price_call.outcome.usd # 98000000
    /\ Cardinality(DOMAIN price_cache) >= 2

----------------------------------------------------------------------------
\* Properties of the ledger side (02_sync_ms_form.py)

CleanedAmount == RemoveSeparators(amount_str)

WrappedInParentheses ==
    /\ CleanedAmount # <<>>
    /\ CleanedAmount[1] = "("
    /\ CleanedAmount[Len(CleanedAmount)] = ")"

MagnitudeText == IF WrappedInParentheses THEN StripParens(CleanedAmount) ELSE CleanedAmount

Parseable == MagnitudeText # <<>> /\ ParseFloat(MagnitudeText).ok

IsZero(x) == AllZero(x.int)
NonNegative(x) == x.sign = 0 \/ IsZero(x)
NonPositive(x) == x.sign = 1 \/ IsZero(x)

PositiveForcing ==
    {"MARKETING - REIMBURSEMENT", "EXPENSE - REIMBURSEMENT", "REFUND", "CHARGEBACK",
     "WITHDRAWAL"}

----------------------------------------------------------------------------
\* Properties of the hash extraction (02_sync_ms_form.py)

IsHexHash(str) == Len(str) = HashLength /\ \A i \in 1..Len(str) : str[i] \in HexChars

\* the last HashLength characters of a string
LastChars(str) == SubSeq(str, Len(str) - HashLength + 1, Len(str))

\* the input is "https://" host "/transaction/" h for a host without a slash
IsTransactionUrl(str) ==
    /\ Len(str) > Len(Https) + Len(TransactionPath) + HashLength
    /\ SubSeq(str, 1, Len(Https)) = Https
    /\ OccursAt(str, TransactionPath, Len(str) - HashLength - Len(TransactionPath) + 1)
    /\ \A i \in (Len(Https) + 1)..(Len(str) - HashLength - Len(TransactionPath)) :
          str[i] # "/"

\* C11: for every 64-character hexadecimal h, extracting the hash from
\* "https://x/transaction/" + h returns exactly h, whatever the host is.
C11_HashFromAnyHost ==
    (hpc = "done" /\ IsTransactionUrl(raw_hash) /\ IsHexHash(LastChars(raw_hash))) =>
        clean_txn_hash = LastChars(raw_hash)

IsSubstringOf(sub, str) == sub = <<>> \/ Contains(str, sub)

\* C12: _extract_hash_from_url is a best-effort passthrough: an input of
\* exactly 64 hexadecimal characters comes back unchanged, an input of
\* neither the URL form nor the 64-hex form comes back unchanged, and every
\* result is the input itself or a 64-hex substring of the input.
C12_BestEffortPassthrough ==
    hpc = "done" =>
        /\ IsHexHash(raw_hash) => clean_txn_hash = raw_hash
        /\ (~IsHexHash(raw_hash) /\ ~Contains(raw_hash, TransactionPath)) =>
              clean_txn_hash = raw_hash
        /\ raw_hash = NotAHash => clean_txn_hash = NotAHash
        /\ \/ clean_txn_hash = raw_hash
           \/ IsHexHash(clean_txn_hash) /\ IsSubstringOf(clean_txn_hash, raw_hash)

\* a URL of tronscan.org whose path holds 64 characters that are not all
\* hexadecimal came back unchanged
C12_Witness ==
    /\ hpc = "done"
    /\ raw_hash = Https \o TronscanOrg \o <<"/", "#">> \o TransactionPath
                     \o [HashText EXCEPT ![HashLength \div 2] = "g"]
    /\ clean_txn_hash = raw_hash

----------------------------------------------------------------------------
\* Properties of malformed and empty amounts (02_sync_ms_form.py,
\* src/tronscan_api.py)

\* the ledger amount is not a number once separators, currency signs, blanks
\* and wrapping parentheses are removed
LedgerNonNumeric == MagnitudeText # <<>> /\ ~ParseFloat(MagnitudeText).ok

\* the raw amount of the chain is not a number once separators, currency
\* signs and blanks are removed
ChainNonNumeric ==
    /\ RemoveSeparators(conv_args.raw_amount) # <<>>
    /\ ~ParseDecimal(RemoveSeparators(conv_args.raw_amount)).ok

\* C15: a malformed amount is converted to 0 and not raised: for an amount
\* string that is non-numeric after cleaning, the amount of the result is 0
\* on the ledger path and on the chain path.
C15_MalformedBecomesZero ==
    /\ (lpc = "done" /\ LedgerNonNumeric) =>
          processed_amount.ok /\ IsZero(processed_amount)
    /\ (cpc = "done" /\ ChainNonNumeric) =>
          /\ conv_result.amount_formatted = <<"0">>
          /\ conv_result.amount_usdt = ZeroUsd

\* the call ended with an error for the caller and no numeric result
LedgerReportsError == ~processed_amount.ok
ChainReportsError == "amount_usdt" \notin DOMAIN conv_result

\* C16 as stated: the conversion of a raw amount that is non-numeric after
\* stripping separators, currency signs and blanks fails with an InvalidAmount
\* error reported to the caller.
C16_InvalidAmountReported ==
    /\ (lpc = "done" /\ LedgerNonNumeric) => LedgerReportsError
    /\ (cpc = "done" /\ ChainNonNumeric) => ChainReportsError

\* C16 amended: no conversion reports an error: for a non-numeric amount the
\* ledger path returns 0.0 and the chain path returns a result whose USD
\* value and price are '0.0'.
C16_MalformedNeverReported ==
    /\ lpc = "done" =>
          /\ ~LedgerReportsError
          /\ LedgerNonNumeric => processed_amount = FloatZero
    /\ cpc = "done" =>
          /\ ~ChainReportsError
          /\ ChainNonNumeric =>
                /\ conv_result.amount_usdt = ZeroUsd
                /\ conv_result.token_price_usdt = ZeroPrice

\* both conversions were given text and both returned
C16_Witness ==
    /\ lpc = "done" /\ amount_str = <<"(", "a", "b", "c", ")">>
    /\ processed_amount = FloatZero
    /\ cpc = "done" /\ conv_args.raw_amount = StrAbc
    /\ conv_result.amount_usdt = ZeroUsd

\* C17: an empty raw amount and the raw amount "0" convert to 0 without an
\* error for every decimals value and token symbol: amount_formatted '0' and
\* amount_usdt '0.0' on the chain path, 0.0 for an empty string on the ledger
\* path.
C17_EmptyAndZeroGiveZero ==
    /\ (cpc = "done" /\ conv_args.raw_amount \in {<<>>, <<"0">>}) =>
          /\ conv_result.amount_formatted = <<"0">>
          /\ conv_result.amount_usdt = ZeroUsd
    /\ (lpc = "done" /\ amount_str = <<>>) => processed_amount = FloatZero

\* "0" with 18 decimals for a token without a price and an empty form cell
\* both gave zero
C17_Witness ==
    /\ cpc = "done" /\ conv_args.raw_amount = <<"0">>
    /\ conv_args.decimals = 18 /\ conv_args.token_symbol = "XYZ"
    /\ conv_result.amount_formatted = <<"0">>
    /\ lpc = "done" /\ amount_str = <<>>
    /\ processed_amount = FloatZero

----------------------------------------------------------------------------
\* Properties of the reading of the sheets (scripts/exception_analysis.py)

MissingColumnReported ==
    \/ "Could not find TrxHash column in MS_FORM" \in read_errors
    \/ "Could not find required columns in TRONSCAN" \in read_errors

\* C18: a sheet without a hash column is fatal for its source: once the
\* reader has reported the missing column the run does not go on to analyse
\* and report with that source taken as an empty record set, not even when
\* the other source has records.
C18_MissingHashColumnIsFatal ==
    MissingColumnReported => pc \notin {"analyzed", "written", "done"}

----------------------------------------------------------------------------
\* Properties of the pagination (src/tronscan_api.py)

\* C19: get_account_transactions ends after a bounded number of page
\* requests whatever the feed does, full pages on every request included:
\* a request is made only while at most 10000 records are accumulated, each
\* full page adds at least limit records, and the call returns what it has
\* accumulated; when the cap is passed it logs the warning and returns.
C19_BoundedPagination ==
    /\ [](/\ page_requests >= 1 => (page_requests - 1) * limit <= 10000
          /\ ppc \in {"loop", "returned"}
          /\ ppc = "loop" => all_transactions <= 10000
          /\ page_log = "Reached limit" => (ppc = "returned" /\ all_transactions > 10000)
          /\ all_transactions >= start)
    /\ <>(ppc = "returned")

\* the feed sent full pages of the default size until the cap stopped the loop
C19_Witness ==
    /\ ppc = "returned"
    /\ limit = 200
    /\ page_log = "Reached limit"
    /\ all_transactions > 10000
    /\ page_requests = 51

----------------------------------------------------------------------------
\* Properties of the wallet-scoped USDT listing (optimized_usdt_fetcher.py)

\* the addresses that are one address up to the case of the letters
SameAddress(a, b) ==
    \/ a = b
    \/ {a, b} \subseteq {"TWalletA", "twalleta", "TWALLETA"}

Opposite(x) == [x EXCEPT !.sign = 1 - @]

\* C20: direction and signed amount follow a comparison of the addresses
\* that ignores case: from = wallet gives OUT and -(amount); otherwise
\* to = wallet gives IN and +(amount); so in every emitted record
\* amount_usdt = -amount_abs exactly when the direction is OUT and
\* amount_usdt = +amount_abs exactly when it is IN.
C20_DirectionAndSign ==
    (upc = "done" /\ usdt_record # Absent) =>
        LET r == usdt_record[1]
        IN  /\ r.direction \in {"IN", "OUT"}
            /\ SameAddress(usdt_tx.from, wallet_address) =>
                  (r.direction = "OUT" /\ r.amount_usdt = Opposite(r.amount_abs))
            /\ (~SameAddress(usdt_tx.from, wallet_address)
                /\ SameAddress(usdt_tx.to, wallet_address)) =>
                  (r.direction = "IN" /\ r.amount_usdt = r.amount_abs)
            /\ (r.direction = "OUT") <=> (r.amount_usdt = Opposite(r.amount_abs))
            /\ (r.direction = "IN") <=> (r.amount_usdt = r.amount_abs)

\* a transfer of 1.5 USDT to the wallet, written in another case, is IN with
\* +1.5
C20_Witness ==
    /\ upc = "done"
    /\ usdt_record # Absent
    /\ wallet_address = "TWALLETA"
    /\ usdt_tx.to = "twalleta"
    /\ usdt_tx.from = "TOther"
    /\ usdt_record[1].direction = "IN"
    /\ usdt_record[1].amount_usdt = [ok |-> TRUE, sign |-> 0, int |-> <<1, 5>>, exp |-> 0 - 1]

----------------------------------------------------------------------------
\* Properties of unmatched and zero-amount transfers
\* (optimized_usdt_fetcher.py, src/tronscan_api.py)

\* a USDT transfer of a non-zero amount whose two addresses are both other
\* addresses than the wallet queried
UnmatchedTransfer ==
    /\ Upper(usdt_tx.symbol) = "USDT"
    /\ ~IsZero(UsdtAmount(usdt_tx))
    /\ ~SameAddress(usdt_tx.from, wallet_address)
    /\ ~SameAddress(usdt_tx.to, wallet_address)

\* C21: when neither the from address nor the to address of a transfer is
\* the reference wallet (compared without case), a record is still emitted
\* for the transfer, with direction UNKNOWN and without a signed amount, and
\* the transfer is never labelled IN or OUT.
C21_UnmatchedIsUnknown ==
    (upc = "done" /\ UnmatchedTransfer) =>
        /\ usdt_record # Absent
        /\ usdt_record[1].direction = "UNKNOWN"
        /\ "amount_usdt" \notin DOMAIN usdt_record[1]

\* the structured transfers of a raw transaction in the order of the feed
StructuredList(t) ==
    (IF t.trc20TransferInfo = Absent THEN <<>> ELSE t.trc20TransferInfo[1])
    \o (IF t.tokenTransferInfo = Absent THEN <<>> ELSE t.tokenTransferInfo[1])

\* the raw amount is missing, empty or '0'
ZeroRaw(opt) == opt = Absent \/ opt[1] = <<>> \/ opt[1] = <<"0">>

\* C22: zero-amount transfers are kept by normalization and dropped by the
\* wallet-scoped fetch: _normalize_transaction returns a record with
\* formatted amount 0 for every transfer whose raw amount is empty or "0"
\* (and one native record of amount 0 when there is no transfer and the
\* top-level amount is empty or "0"), whereas no record of
\* get_usdt_transactions has amount 0: a transfer of amount 0 gives no record.
C22_ZeroKeptThenDropped ==
    /\ npc = "done" =>
          /\ Len(results) = (IF StructuredList(tx) = <<>> THEN 1 ELSE Len(StructuredList(tx)))
          /\ \A i \in 1..Len(StructuredList(tx)) :
                ZeroRaw(StructuredList(tx)[i].amount_str) =>
                    /\ results[i].amount_formatted = <<"0">>
                    /\ results[i].transfer_type = "TRC20"
          /\ (StructuredList(tx) = <<>> /\ ZeroRaw(tx.amount)) =>
                results[1].amount_formatted = <<"0">>
    /\ upc = "done" =>
          /\ usdt_record # Absent =>
                /\ ~IsZero(usdt_record[1].amount_abs)
                /\ ~IsZero(usdt_record[1].amount_usdt)
          /\ ZeroRaw(usdt_tx.value) => usdt_record = Absent

\* a transaction of two transfers, the second of amount '0', gave two
\* records, and the fetch dropped a transfer of value '0'
C22_Witness ==
    /\ npc = "done"
    /\ Len(StructuredList(tx)) = 2
    /\ StructuredList(tx)[1].amount_str = Present(Str1500000)
    /\ StructuredList(tx)[2].amount_str = Present(<<"0">>)
    /\ Len(results) = 2
    /\ results[2].amount_formatted = <<"0">>
    /\ upc = "done"
    /\ usdt_tx.value = Present(<<"0">>)
    /\ usdt_record = Absent

----------------------------------------------------------------------------
\* Properties of the scaling of token transfers (src/tronscan_api.py)

\* the amount a raw transfer states, scaled with the given exponent
ScaledText(transfer, decimals) ==
    DecimalStr(DecimalDivPow10(ParseDecimal(transfer.amount_str[1]), decimals))

\* the raw transfer states an amount that is a number other than '0'
StatesAmount(transfer) ==
    /\ transfer.amount_str # Absent
    /\ transfer.amount_str[1] \notin {<<>>, <<"0">>}
    /\ ParseDecimal(transfer.amount_str[1]).ok

\* C23: each token transfer is scaled with its own declared decimals, and a
\* transfer that omits decimals is scaled with the default of its symbol in
\* token_decimals (18 for BTT, JST, SUN, USDJ, TUSD; 6 for USDT, TRX), not
\* with one constant for all symbols.
C23_PerSymbolDefaultDecimals ==
    npc = "done" =>
        \A i \in 1..Len(StructuredList(tx)) :
            StatesAmount(StructuredList(tx)[i]) =>
                results[i].amount_formatted =
                    ScaledText(StructuredList(tx)[i],
                               IF StructuredList(tx)[i].decimals = Absent
                               THEN token_decimals(Upper(StructuredList(tx)[i].symbol))
                               ELSE StructuredList(tx)[i].decimals[1])

\* the first of the amount field, the value field and the amount of
\* contractData that the transaction has, "0" when it has none
FirstAmountField(t) ==
    IF t.amount # Absent THEN t.amount[1]
    ELSE IF t.value # Absent THEN t.value[1]
    ELSE IF t.contractData # Absent /\ t.contractData[1].amount # Absent
         THEN t.contractData[1].amount[1]
    ELSE <<"0">>

\* C24: for a raw transaction without structured token transfers the one
\* native record takes its raw amount from the first field present among the
\* amount field, the value field and the amount of contractData, "0" when
\* none is present; it is scaled with the exponent 6 and labelled TRX.
C24_NativeAmountOrder ==
    (npc = "done" /\ StructuredList(tx) = <<>>) =>
        /\ Len(results) = 1
        /\ results[1].token_symbol = "TRX"
        /\ results[1].transfer_type = "TRX"
        /\ results[1].contract_address = ""
        /\ results[1].amount_raw = FirstAmountField(tx)
        /\ results[1].amount_formatted =
              IF FirstAmountField(tx) = <<"0">> THEN <<"0">>
              ELSE DecimalStr(DecimalDivPow10(ParseDecimal(FirstAmountField(tx)), 6))

\* a transaction with neither amount nor value took the 9 of contractData,
\* which is 0.000009 TRX
C24_Witness ==
    /\ npc = "done"
    /\ tx.trc20TransferInfo = Present(<<>>)
    /\ tx.amount = Absent /\ tx.value = Absent
    /\ tx.contractData = Present([empty |-> FALSE, amount |-> Present(<<"9">>)])
    /\ results[1].amount_raw = <<"9">>
    /\ results[1].amount_formatted = <<"0", ".", "0", "0", "0", "0", "0", "9">>
    /\ results[1].token_symbol = "TRX"

----------------------------------------------------------------------------
\* Properties of the cursor pagination (optimized_usdt_fetcher.py)

\* C25: the while loop of get_usdt_transactions ends for every behaviour of
\* the feed, a feed that keeps sending non-empty pages whose fingerprints
\* never repeat consecutively included: the call returns after a bounded
\* number of page requests.
C25_CursorPaginationTerminates == <>(fpc = "returned")

----------------------------------------------------------------------------
\* Properties of the listing for several addresses (src/tronscan_api.py)

\* the records the transactions of one answer of the feed give: those of the
\* whole page, or of the transactions before the one that fails
Delivered(page) ==
    IF page.kind = "page" THEN page.n * page.per_tx
    ELSE IF page.kind = "bad_tx" THEN page.failed * page.per_tx
    ELSE 0

RECURSIVE DeliveredBy(_)
DeliveredBy(script) ==
    IF script = <<>> THEN 0 ELSE Delivered(Head(script)) + DeliveredBy(Tail(script))

\* the request for the address failed, or one of its transactions did
PagingFailed(script) == script[Len(script)].kind \in {"error", "bad_tx"}

\* C26: per-address processing is independent:
\* get_transactions_for_multiple_addresses returns, in the order of the list,
\* the records fetched for each address; a failure while paging one address
\* ends the paging of that address only, the records of its earlier pages
\* are kept, every later address is still processed, and no exception
\* reaches the caller of the per-address call.
C26_AddressesIndependent ==
    /\ mpc \in {"loop", "returned"}
    /\ Len(multi_transactions) = address_index - 1
    /\ multi_errors = {}
    /\ \A i \in 1..Len(multi_transactions) :
          /\ multi_transactions[i].address = addresses[i]
          /\ multi_transactions[i].records = DeliveredBy(feeds[i])
    /\ mpc = "returned" => Len(multi_transactions) = Len(addresses)

\* the paging of the first address failed on its third request, its two full
\* pages were kept and the second address was processed to the end
C26_Witness ==
    /\ mpc = "returned"
    /\ Len(addresses) = 2
    /\ Len(feeds[1]) = 3
    /\ feeds[1][3].kind = "error"
    /\ multi_transactions[1].records = 2 * DefaultLimit
    /\ ~PagingFailed(feeds[2])
    /\ multi_transactions[2].records = DefaultLimit + 1

----------------------------------------------------------------------------
\* Properties of the fallback prices (src/historical_price_fetcher.py,
\* src/tronscan_api.py)

\* the lookup of the step ended in a fallback: the symbol is not in the token
\* mapping, or the request failed or brought no usd price
EndedInFallback(call) ==
    \/ Upper(call.token_symbol) \notin token_mapping
    \/ call.requested /\ ServiceFailed(call.outcome)

\* C27: only prices obtained from the price service enter the cache: a call
\* of get_historical_price whose lookup ends in a fallback leaves price_cache
\* unchanged, so that a later call for the same symbol and date asks the
\* price service again.
C27_OnlyFetchedPricesCached ==
    [][(/\ IsGetStep
        /\ CacheKey(price_call') \notin DOMAIN price_cache
        /\ EndedInFallback(price_call'))
       => price_cache' = price_cache]_vars

\* the conversion fell back to a static price: it had no timestamp, or the
\* price fetcher fell back
ConversionFellBack ==
    \/ conv_args.timestamp = 0
    \/ Upper(conv_args.token_symbol) \notin token_mapping
    \/ ServiceFailed(service_log[1])

\* C28: the fallback unit price of a token is the same on every path that
\* falls back: the price _convert_amount_to_readable uses for timestamp 0
\* (TronScanAPI._get_fallback_price) is the price the HistoricalPriceFetcher
\* returns when the fetch fails, for every symbol, JUST, NFT, USDJ, TUSD and
\* LIVE included.
C28_SameFallbackEverywhere ==
    (cpc = "done" /\ ConversionFellBack) =>
        conv_result.token_price_usdt
            = PriceText(FetcherFallbackPrice(Upper(conv_args.token_symbol)))

----------------------------------------------------------------------------
\* Properties of the handoff between the sync scripts (01_sync_wallet.py,
\* 02_sync_ms_form.py)

\* C29: after any run of 01_sync_wallet.py, successful or failed, whenever
\* current_batch.txt names a batch id the workbook of that batch exists, so
\* that a run of 02_sync_ms_form.py never stops with 'Excel file not found'
\* for the current batch; and 02_sync_ms_form.py creates or modifies no
\* workbook when current_batch.txt or the workbook of the batch is missing.
C29_BatchHandoff ==
    /\ []((wpc = "ended" /\ current_batch # NoBatch) => current_batch \in DOMAIN processed)
    /\ [](form_log # "Excel file not found")
    /\ [][(form_log' \in {"No current_batch.txt found", "Excel file not found"}
           /\ form_log' # form_log)
          => processed' = processed]_vars

----------------------------------------------------------------------------
\* the hash of row i of the sheet as the reader keys it
TypedKey(i) == Strip(all_values.records[i].hash)

\* the rows that count: the hash cell is not blank and, in the chain sheet,
\* is not the total row
CountedRows ==
    {i \in 1..Len(all_values.records) :
        /\ TypedKey(i) # ""
        /\ ~(sheet_name = "TRONSCAN" /\ TypedKey(i) \in {"TOTAL", "total"})}

\* the last counted row with the hash of row i
LastRowOf(i) ==
    CHOOSE l \in CountedRows :
        /\ TypedKey(l) = TypedKey(i)
        /\ \A j \in CountedRows : TypedKey(j) = TypedKey(i) => j <= l

HasAmountColumn ==
    \E c \in 1..Len(all_values.header) : all_values.header[c] \in {"amount", "usdt amount", "amt"}

====
